---- MODULE Spec2Model ----
(***************************************************************************)
(* Model of the document structuring engine and of the multi-stage         *)
(* concurrent classification pipeline:                                     *)
(*   extract/chat.py             chat_infer and its retry decorator        *)
(*   extract/stage1-3process.py  stage functions, process_single_item,     *)
(*                               process_old_extracted_file                *)
(*   extract/point_classify.py   run_point_extraction, run_excel_extraction*)
(*   parser/doctree.py           DoctreeParser.build_doctree,              *)
(*                               parse_markdown, serialize_with_titles,    *)
(*                               rule_based_level, parse_table             *)
(*                                                                         *)
(* Nine specifications share the variables; each leaves the variables of   *)
(* the other components at their idle values:                              *)
(*   SpecChat   one call of chat_infer, attempt by attempt                 *)
(*   SpecPipe   one call of process_single_item, stage by stage            *)
(*   SpecTree   one call of build_doctree, section by section              *)
(*   SpecBatch  one call of a batch entry point, thread pool and collector *)
(*   SpecMarkdown  one call of parse_markdown, then serialize_with_titles, *)
(*                 and a second run of the builder or of the flattener     *)
(*   SpecRule   one call of rule_based_level                               *)
(*   SpecTable  one call of parse_table                                    *)
(*   SpecFlatten  one call of serialize_with_titles on any forest          *)
(*   SpecTermination  a call of chat_infer, of process_single_item or of   *)
(*                    a batch entry point, under fair scheduling           *)
(*                                                                         *)
(* Strings of the program are sequences of tokens, so that strip, replace, *)
(* find and rfind are computed rather than assumed.  The judgment values   *)
(* "是" and "否" are written "yes" and "no".                               *)
(***************************************************************************)
EXTENDS Integers, Sequences, FiniteSets, TLC

VARIABLES
    \* ---- chat_infer (extract/chat.py)
    LLM_Type,        \* the model identifier of the call
    chat_pc,         \* "idle" | "running" | "returned" | "raised"
    attempt_number,  \* attempts of the decorated body made so far
    service_calls,   \* calls of client.chat.completions.create made so far
    attempt_log,     \* what the inference service did at each attempt, in order
    chat_out,        \* the value returned or the error raised to the caller
    \* ---- process_single_item (extract/stage1-3process.py)
    item,            \* the item under processing
    pipe_pc,         \* "idle" | "start" | "stage1" | "clean" | "stage2" | "stage3" | "done" | "raised"
    stage1_semantic, \* result of stage1_semantic_check, or NoStage
    body_text,       \* result of stage1_title_clean
    stage2_experiment,
    stage3_chemistry,
    invoked,         \* the stages invoked so far, in order
    inference_calls, \* the calls of chat_infer made by the stages so far, in order
    pipe_out,        \* the record returned by process_single_item
    \* ---- build_doctree (parser/doctree.py)
    sections,        \* the (title, content, level) triples handed to build_doctree
    tree_pc,         \* "idle" | "loop" | "returned"
    next_section,    \* index of the next section to consume
    nodes,           \* arena of Node objects: id -> [title, level, content, children]
    stack,           \* the ancestor stack, a sequence of node ids
    \* ---- batch entry points
    entry,           \* "idle" | "old" | "point" | "excel"
    all_items,       \* the units of the batch, in submission order
    max_workers,
    batch_pc,        \* "idle" | "submit" | "collect" | "unwinding" | "returned" | "failed"
    submitted,       \* number of units submitted to the executor
    task,            \* unit position -> "none" | "queued" | "running" | "finished"
    future,          \* unit position -> outcome of the finished future
    inference,       \* unit position -> how the unit's call of chat_infer ended
    yielded,         \* positions as_completed has already yielded
    results,         \* the result list of the collector
    saved,           \* the list written to the output file, or NotSaved
    returned,        \* the value returned by the entry point, or NotReturned
    \* ---- parse_markdown and serialize_with_titles (parser/doctree.py)
    md_text,         \* the text handed to parse_markdown, line by line
    client,          \* whether self.client is set
    md_pc,           \* "idle" | "start" | "classify" | "build" | "parsed" | "flattened" | "again"
    titles,          \* the result of extract_titles
    last_strong,
    sections_meta,   \* the (title, level) pairs of the headings classified so far
    prev_titles,
    level_log,       \* how each heading was classified, in order
    parsed_tree,     \* the result of parse_markdown
    segments,        \* the result of serialize_with_titles
    earlier,         \* the tree and the records of the run before this one
    \* ---- rule_based_level (parser/doctree.py)
    rule_title,      \* the characters of the title handed to rule_based_level
    rule_pc,         \* "idle" | "start" | "returned"
    rule_out,        \* the (level, strength) pair returned
    \* ---- parse_table (parser/doctree.py)
    excel_json,      \* the content list of the dict handed to parse_table
    header_row_index,
    row_label_col_index,
    table_pc,        \* "idle" | "start" | "returned" | "raised"
    table_out        \* the triplets returned or the error raised

chatVars  == <<LLM_Type, chat_pc, attempt_number, service_calls, attempt_log, chat_out>>
pipeVars  == <<item, pipe_pc, stage1_semantic, body_text, stage2_experiment,
               stage3_chemistry, invoked, inference_calls, pipe_out>>
treeVars  == <<sections, tree_pc, next_section, nodes, stack>>
batchVars == <<entry, all_items, max_workers, batch_pc, submitted, task, future,
               inference, yielded, results, saved, returned>>
mdVars    == <<md_text, client, md_pc, titles, last_strong, sections_meta, prev_titles,
               level_log, parsed_tree, segments, earlier>>
ruleVars  == <<rule_title, rule_pc, rule_out>>
tableVars == <<excel_json, header_row_index, row_label_col_index, table_pc, table_out>>
vars      == <<chatVars, pipeVars, treeVars, batchVars, mdVars, ruleVars, tableVars>>

----------------------------------------------------------------------------
(* Strings as token sequences.                                             *)

Tok(t, k, v) == [t |-> t, k |-> k, v |-> v]
LBRACE     == Tok("lbrace", "", "")
RBRACE     == Tok("rbrace", "", "")
FENCE      == Tok("fence", "", "")      \* the three-backquote marker
FENCE_JSON == Tok("fence_json", "", "") \* the marker followed by json
WS         == Tok("ws", "", "")
Word(w)    == Tok("w", "", w)
Field(k, v) == Tok("field", k, v)

EmptyStr == << >>

RECURSIVE Remove(_, _)
\* str.replace(tok, ""): every occurrence of the token removed.
Remove(s, toks) ==
    IF s = << >> THEN << >>
    ELSE IF Head(s) \in toks THEN Remove(Tail(s), toks)
    ELSE <<Head(s)>> \o Remove(Tail(s), toks)

RECURSIVE LStrip(_)
LStrip(s) == IF s # << >> /\ Head(s) = WS THEN LStrip(Tail(s)) ELSE s

RECURSIVE RStrip(_)
RStrip(s) ==
    IF s # << >> /\ s[Len(s)] = WS THEN RStrip(SubSeq(s, 1, Len(s) - 1)) ELSE s

\* str.strip()
Strip(s) == RStrip(LStrip(s))

\* str.find(tok): 0-based position of the first occurrence, -1 when absent.
Find(s, tok) ==
    IF \E i \in 1..Len(s) : s[i] = tok
    THEN (CHOOSE i \in 1..Len(s) : s[i] = tok /\ \A j \in 1..(i - 1) : s[j] # tok) - 1
    ELSE -1

\* str.rfind(tok): 0-based position of the last occurrence, -1 when absent.
RFind(s, tok) ==
    IF \E i \in 1..Len(s) : s[i] = tok
    THEN (CHOOSE i \in 1..Len(s) : s[i] = tok /\ \A j \in (i + 1)..Len(s) : s[j] # tok) - 1
    ELSE -1

\* s[a:b] of Python, 0-based, end exclusive.
Slice(s, a, b) == SubSeq(s, a + 1, b)

----------------------------------------------------------------------------
(* The inference service: what one call of client.chat.completions.create  *)
(* can do, and the texts it can answer with.                               *)

Yes   == "yes"      \* the judgment value "是"
No    == "no"       \* the judgment value "否"
Maybe == "maybe"    \* any other value of a judgment field

JudgmentKeys == {"has_semantic_info", "is_experiment", "is_chemistry"}

\* Answers to a judgment prompt about key k: well formed, fenced, wrapped in
\* prose, without the key, without JSON, malformed JSON, braces reversed, empty.
JsonResponses(k) ==
    { <<LBRACE, Field(k, Yes), Field("reason", "r"), RBRACE>>,
      <<LBRACE, Field(k, No), Field("reason", "r"), RBRACE>>,
      <<LBRACE, Field(k, Maybe), RBRACE>>,
      <<FENCE_JSON, WS, LBRACE, Field(k, Yes), RBRACE, WS, FENCE>>,
      <<Word("x"), LBRACE, Field(k, No), RBRACE, Word("x")>>,
      <<LBRACE, Field("reason", "r"), RBRACE>>,
      <<Word("x")>>,
      <<LBRACE, Word("x"), RBRACE>>,
      <<RBRACE, Field(k, Yes), LBRACE>>,
      EmptyStr }

\* Answers to a free-text prompt.
PlainResponses == { <<Word("body")>>, <<WS, Word("body"), WS>>, <<WS>>, EmptyStr }

ServiceTexts == PlainResponses \cup UNION { JsonResponses(k) : k \in JudgmentKeys }

TransientErrors == {"OpenAIError", "RequestException"}
ErrorTypes      == TransientErrors \cup {"TypeError"}

NoError == [type |-> "none", at |-> 0]

\* One call of the service: it raises, or it answers with a completion whose
\* message content is a text, is None, or cannot be reached (no choices).
SvcRaise(e)   == [kind |-> "raise", err |-> e, shape |-> "", text |-> EmptyStr]
SvcText(s)    == [kind |-> "completion", err |-> "", shape |-> "text", text |-> s]
SvcNone       == [kind |-> "completion", err |-> "", shape |-> "none", text |-> EmptyStr]
SvcNoChoices  == [kind |-> "completion", err |-> "", shape |-> "nochoices", text |-> EmptyStr]
SvcNotCalled  == [kind |-> "nocall", err |-> "", shape |-> "", text |-> EmptyStr]

ServiceOutcomesOver(texts) ==
    { SvcRaise(e) : e \in ErrorTypes } \cup { SvcText(s) : s \in texts }
        \cup { SvcNone, SvcNoChoices }

----------------------------------------------------------------------------
(* chat_infer (extract/chat.py).                                           *)

Implemented == {"gpt-4o", "deepseek"}
LLMTypes    == Implemented \cup {"Qwen2.5", "Qwen3", "glm4"}

\* What a call of chat_infer hands to its caller.
Ret(s)   == [kind |-> "return", text |-> s, err |-> NoError]
Raise(e) == [kind |-> "raise", text |-> EmptyStr, err |-> e]
NoOut    == [kind |-> "none", text |-> EmptyStr, err |-> NoError]

\* stop=stop_after_attempt(10)
MaxAttempts == 10

\* Variant of StopAfterAttempt stopping one attempt late; C7 must tell them apart.
StopAfterAttempt_late(n) == n >= MaxAttempts + 1

StopAfterAttempt(n) == n >= MaxAttempts

\* Variant of RetryIfExceptionType retrying every error; C9 must tell them apart.
RetryIfExceptionType_any(e) == TRUE

\* retry=retry_if_exception_type((openai.OpenAIError, RequestException))
RetryIfExceptionType(e) == e.type \in TransientErrors

\* Whether the body calls the service at all: the branches of the identifiers
\* without an implementation are "pass".
CallsService(llm) == llm \in Implemented

\* Variant of ChatBody losing the content of the answer; C8 must tell them apart.
ChatBody_drop(llm, svc, n) ==
    IF svc.kind = "raise" THEN Raise([type |-> svc.err, at |-> n]) ELSE Ret(EmptyStr)

\* The undecorated body at attempt n, the service doing svc.  For gpt-4o and
\* deepseek the call is outside the try, so its error leaves the body; the
\* extraction of the content is inside, so its failure yields "".  For the
\* other identifiers the trailing block reads the unbound name client, and the
\* except around it yields "".
ChatBody(llm, svc, n) ==
    IF CallsService(llm)
    THEN IF svc.kind = "raise"
         THEN Raise([type |-> svc.err, at |-> n])
         ELSE IF svc.shape = "text" THEN Ret(svc.text) ELSE Ret(EmptyStr)
    ELSE Ret(EmptyStr)

\* What the service does at an attempt of chat_infer(text, llm).
AttemptInputs(llm) ==
    IF CallsService(llm) THEN ServiceOutcomesOver(ServiceTexts) ELSE {SvcNotCalled}

ChatIdle ==
    /\ LLM_Type = "none"
    /\ chat_pc = "idle"
    /\ attempt_number = 0
    /\ service_calls = 0
    /\ attempt_log = << >>
    /\ chat_out = NoOut

InitChatCall ==
    /\ LLM_Type \in LLMTypes
    /\ chat_pc = "running"
    /\ attempt_number = 0
    /\ service_calls = 0
    /\ attempt_log = << >>
    /\ chat_out = NoOut

\* The bookkeeping common to every attempt.
AttemptMade(svc) ==
    /\ attempt_number' = attempt_number + 1
    /\ service_calls' = service_calls + (IF CallsService(LLM_Type) THEN 1 ELSE 0)
    /\ attempt_log' = Append(attempt_log, svc)
    /\ UNCHANGED LLM_Type

\* An attempt whose body returns: the decorator returns its value.
ChatAttemptReturns ==
    /\ chat_pc = "running"
    /\ \E svc \in AttemptInputs(LLM_Type) :
         LET r == ChatBody(LLM_Type, svc, attempt_number + 1) IN
           /\ r.kind = "return"
           /\ AttemptMade(svc)
           /\ chat_pc' = "returned"
           /\ chat_out' = r
    /\ UNCHANGED <<pipeVars, treeVars, batchVars, mdVars, ruleVars, tableVars>>

\* An attempt whose body raises an error the decorator retries, the attempt
\* cap not reached: the decorator waits and runs the body again.
ChatAttemptRetried ==
    /\ chat_pc = "running"
    /\ \E svc \in AttemptInputs(LLM_Type) :
         LET r == ChatBody(LLM_Type, svc, attempt_number + 1) IN
           /\ r.kind = "raise"
           /\ RetryIfExceptionType(r.err)
           /\ ~StopAfterAttempt(attempt_number + 1)
           /\ AttemptMade(svc)
           /\ UNCHANGED <<chat_pc, chat_out>>
    /\ UNCHANGED <<pipeVars, treeVars, batchVars, mdVars, ruleVars, tableVars>>

\* An attempt whose body raises an error that is not retried, or the last
\* attempt allowed: reraise=True hands the body's error to the caller.
ChatAttemptRaises ==
    /\ chat_pc = "running"
    /\ \E svc \in AttemptInputs(LLM_Type) :
         LET r == ChatBody(LLM_Type, svc, attempt_number + 1) IN
           /\ r.kind = "raise"
           /\ ~RetryIfExceptionType(r.err) \/ StopAfterAttempt(attempt_number + 1)
           /\ AttemptMade(svc)
           /\ chat_pc' = "raised"
           /\ chat_out' = r
    /\ UNCHANGED <<pipeVars, treeVars, batchVars, mdVars, ruleVars, tableVars>>

NextChat == ChatAttemptReturns \/ ChatAttemptRetried \/ ChatAttemptRaises

----------------------------------------------------------------------------
(* The stage functions (extract/stage1-3process.py).                       *)

\* What chat_infer can hand to a stage: a text of the service or "" (the
\* swallowed failures), the error of the tenth attempt, or an error that is
\* not retried.
ChatInferResults(texts) ==
    { Ret(s) : s \in texts \cup {EmptyStr} }
        \cup { Raise([type |-> e, at |-> MaxAttempts]) : e \in TransientErrors }
        \cup { Raise([type |-> "TypeError", at |-> 1]) }

\* A call of chat_infer(prompt, LLM_Type=llm_type) seen from a stage: svc is
\* what the service did at the last attempt, out what chat_infer hands back.
\* A transient error is handed back by the tenth attempt, any other by the
\* first.
ChatInferCall(llm, svc) ==
    [svc |-> svc,
     out |-> ChatBody(llm, svc,
                      IF svc.kind = "raise" /\ RetryIfExceptionType([type |-> svc.err])
                      THEN MaxAttempts ELSE 1)]

\* llm_type is "gpt-4o" in every call of the entry points.
ChatInferCalls(texts) ==
    { ChatInferCall("gpt-4o", svc) : svc \in ServiceOutcomesOver(texts) }

\* Python values of a JSON item field: a str, or something else (a number,
\* a list, None) of which only the truth value matters.
StrVal(s)    == [ty |-> "str", s |-> s, truthy |-> (s # EmptyStr)]
OtherVal(b)  == [ty |-> "other", s |-> EmptyStr, truthy |-> b]

EmptyDict == [k \in {} |-> ""]

\* dict.get(k, default)
Get(d, k, default) == IF k \in DOMAIN d THEN d[k] ELSE default

\* json.loads of a slice that starts at a left brace and ends at a right
\* brace: an object when only fields (and blanks) lie between, else a
\* JSONDecodeError.  A repeated key keeps its last value.
JsonValid(js) ==
    /\ Len(js) >= 2
    /\ js[1] = LBRACE
    /\ js[Len(js)] = RBRACE
    /\ \A i \in 2..(Len(js) - 1) : js[i].t \in {"field", "ws"}

JsonLoads(js) ==
    LET keys == { js[i].k : i \in { j \in 1..Len(js) : js[j].t = "field" } }
        last(k) == CHOOSE i \in 1..Len(js) :
                      /\ js[i].t = "field" /\ js[i].k = k
                      /\ \A j \in (i + 1)..Len(js) : ~(js[j].t = "field" /\ js[j].k = k)
    IN  [k \in keys |-> js[last(k)].v]

\* parse_json_response: the fences removed, the text between the first left
\* brace and the last right brace loaded; {} when there is none or it does
\* not load.
ParseJsonResponse(response) ==
    LET r == Strip(Remove(response, {FENCE_JSON, FENCE}))
        start_idx == Find(r, LBRACE)
        end_idx   == RFind(r, RBRACE) + 1
    IN  IF start_idx # -1 /\ end_idx > start_idx
        THEN LET json_str == Slice(r, start_idx, end_idx)
             IN  IF JsonValid(json_str) THEN JsonLoads(json_str) ELSE EmptyDict
        ELSE EmptyDict

\* The reason field of a stage result: the reason of the response, or the
\* text built from the error caught.
Reason(text)    == [error |-> "", text |-> text]
ErrorReason(e)  == [error |-> e.type, text |-> ""]

NoStage == [kind |-> "none", judgment |-> "", reason |-> Reason(""), should_delete |-> FALSE]
StageOk(j, reason, del) ==
    [kind |-> "ok", judgment |-> j, reason |-> reason, should_delete |-> del]
\* An error that leaves the stage function: the prompt is built before the try.
StageRaises == [kind |-> "raise", judgment |-> "", reason |-> Reason(""), should_delete |-> FALSE]

\* Variant of Stage1SemanticCheck defaulting to yes; C13 must tell them apart.
Stage1SemanticCheck_failopen(reference_text, o) ==
    IF reference_text.ty # "str" THEN StageRaises
    ELSE IF o.kind = "raise" THEN StageOk(Yes, ErrorReason(o.err), FALSE)
    ELSE LET result == ParseJsonResponse(o.text)
             has_semantic == Get(result, "has_semantic_info", Yes)
         IN  StageOk(has_semantic, Reason(Get(result, "reason", "")), has_semantic = No)

\* stage1_semantic_check; o is what chat_infer hands back.
Stage1SemanticCheck(reference_text, o) ==
    IF reference_text.ty # "str" THEN StageRaises
    ELSE IF o.kind = "raise" THEN StageOk(No, ErrorReason(o.err), TRUE)
    ELSE LET result == ParseJsonResponse(o.text)
             has_semantic == Get(result, "has_semantic_info", No)
         IN  StageOk(has_semantic, Reason(Get(result, "reason", "")), has_semantic = No)

\* stage1_title_clean: the stripped response, the original text on an error.
Stage1TitleClean(reference_text, o) ==
    IF o.kind = "raise" THEN reference_text.s ELSE Strip(o.text)

\* Variant of Stage2ExperimentCheck defaulting to yes; C15 must tell them apart.
Stage2ExperimentCheck_failyes(body, o) ==
    IF o.kind = "raise" THEN StageOk(Yes, ErrorReason(o.err), FALSE)
    ELSE LET result == ParseJsonResponse(o.text)
         IN  StageOk(Get(result, "is_experiment", Yes),
                     Reason(Get(result, "reason", "")), FALSE)

\* stage2_experiment_check; should_delete is not a field of its result and
\* stays FALSE.
Stage2ExperimentCheck(body, o) ==
    IF o.kind = "raise" THEN StageOk(No, ErrorReason(o.err), FALSE)
    ELSE LET result == ParseJsonResponse(o.text)
         IN  StageOk(Get(result, "is_experiment", No),
                     Reason(Get(result, "reason", "")), FALSE)

\* Variant of Stage3ChemistryCheck with should_delete inverted; C1 must tell them apart.
Stage3ChemistryCheck_inverted(body, o) ==
    IF o.kind = "raise" THEN StageOk(No, ErrorReason(o.err), FALSE)
    ELSE LET result == ParseJsonResponse(o.text)
             is_chemistry == Get(result, "is_chemistry", No)
         IN  StageOk(is_chemistry, Reason(Get(result, "reason", "")), is_chemistry # Yes)

\* stage3_chemistry_check
Stage3ChemistryCheck(body, o) ==
    IF o.kind = "raise" THEN StageOk(No, ErrorReason(o.err), FALSE)
    ELSE LET result == ParseJsonResponse(o.text)
             is_chemistry == Get(result, "is_chemistry", No)
         IN  StageOk(is_chemistry, Reason(Get(result, "reason", "")), is_chemistry = Yes)

----------------------------------------------------------------------------
(* process_single_item (extract/stage1-3process.py).                       *)

\* The items of the input file: a dict whose reference field is a text,
\* is empty, is missing, or is not a str; or an entry that is not a dict.
ItemDict(ref) == [is_dict |-> TRUE, has_ref |-> TRUE, ref |-> ref]
ItemNoRef     == [is_dict |-> TRUE, has_ref |-> FALSE, ref |-> StrVal(EmptyStr)]
ItemNotDict   == [is_dict |-> FALSE, has_ref |-> FALSE, ref |-> StrVal(EmptyStr)]
NoItem        == [is_dict |-> FALSE, has_ref |-> FALSE, ref |-> OtherVal(FALSE)]

RefTexts == { <<Word("ref")>>, <<WS, Word("ref")>> }

Items ==
    { ItemDict(StrVal(s)) : s \in RefTexts \cup {EmptyStr} }
        \cup { ItemDict(OtherVal(b)) : b \in BOOLEAN }
        \cup { ItemNoRef, ItemNotDict }

\* Variant of ReferenceOf with a non-empty default; C11 must tell them apart.
ReferenceOf_default(it) == IF it.has_ref THEN it.ref ELSE StrVal(<<Word("ref")>>)

\* item.get("原文Reference", "")
ReferenceOf(it) == IF it.has_ref THEN it.ref ELSE StrVal(EmptyStr)

\* The record process_single_item returns.  reference is 原文Reference,
\* cleaned_body is 清洗后的正文, is_experiment is 是否为实验步骤, is_chemistry
\* is 是否为化学领域, is_invention_point is 是否为发明点.
ItemRecord(ref, body, exp, chem, inv) ==
    [reference |-> ref, cleaned_body |-> body, is_experiment |-> exp,
     is_chemistry |-> chem, is_invention_point |-> inv]

NoRecord == ItemRecord(EmptyStr, EmptyStr, "", "", "")

\* lines 193-200
EmptyItemRecord == ItemRecord(EmptyStr, EmptyStr, No, "", No)

\* lines 205-212
Stage1DeleteRecord(reference_text) == ItemRecord(reference_text.s, EmptyStr, No, "", No)

\* line 219
IsExperiment(s2) == IF s2.judgment = Yes THEN Yes ELSE No

\* lines 243-251
NotExperimentRecord(reference_text, body, s2) ==
    ItemRecord(reference_text.s, body, IsExperiment(s2), "", Yes)

\* Variant of Stage3Record that keeps every experiment step as an invention
\* point; C33 must tell them apart.
Stage3Record_kept(reference_text, body, s2, s3) ==
    ItemRecord(reference_text.s, body, IsExperiment(s2), s3.judgment, Yes)

\* lines 224-242
Stage3Record(reference_text, body, s2, s3) ==
    ItemRecord(reference_text.s, body, IsExperiment(s2), s3.judgment,
               IF s3.should_delete THEN No ELSE Yes)

SemanticResults == ChatInferResults(JsonResponses("has_semantic_info"))
CleanResults    == ChatInferResults(PlainResponses)
ExperimentResults == ChatInferResults(JsonResponses("is_experiment"))
ChemistryResults == ChatInferResults(JsonResponses("is_chemistry"))

\* The calls of chat_infer a stage can make: what the service did at the last
\* attempt, and what chat_infer hands back for it.
SemanticCalls   == ChatInferCalls(JsonResponses("has_semantic_info"))
CleanCalls      == ChatInferCalls(PlainResponses)
ExperimentCalls == ChatInferCalls(JsonResponses("is_experiment"))
ChemistryCalls  == ChatInferCalls(JsonResponses("is_chemistry"))

PipeIdle ==
    /\ item = NoItem
    /\ pipe_pc = "idle"
    /\ stage1_semantic = NoStage
    /\ body_text = EmptyStr
    /\ stage2_experiment = NoStage
    /\ stage3_chemistry = NoStage
    /\ invoked = << >>
    /\ inference_calls = << >>
    /\ pipe_out = NoRecord

InitPipeCall ==
    /\ item \in Items
    /\ pipe_pc = "start"
    /\ stage1_semantic = NoStage
    /\ body_text = EmptyStr
    /\ stage2_experiment = NoStage
    /\ stage3_chemistry = NoStage
    /\ invoked = << >>
    /\ inference_calls = << >>
    /\ pipe_out = NoRecord

\* line 191 on an entry that is not a dict: item.get raises.
PipeItemNotDict ==
    /\ pipe_pc = "start"
    /\ ~item.is_dict
    /\ pipe_pc' = "raised"
    /\ UNCHANGED <<item, stage1_semantic, body_text, stage2_experiment,
                   stage3_chemistry, invoked, inference_calls, pipe_out>>
    /\ UNCHANGED <<chatVars, treeVars, batchVars, mdVars, ruleVars, tableVars>>

\* lines 191-200: an empty or missing reference is answered at once.
PipeEmptyReference ==
    /\ pipe_pc = "start"
    /\ item.is_dict
    /\ ~ReferenceOf(item).truthy
    /\ pipe_out' = EmptyItemRecord
    /\ pipe_pc' = "done"
    /\ UNCHANGED <<item, stage1_semantic, body_text, stage2_experiment,
                   stage3_chemistry, invoked, inference_calls>>
    /\ UNCHANGED <<chatVars, treeVars, batchVars, mdVars, ruleVars, tableVars>>

\* lines 203-212: stage 1 and the return on should_delete.
PipeStage1 ==
    /\ pipe_pc = "start"
    /\ item.is_dict
    /\ ReferenceOf(item).truthy
    /\ \E c \in SemanticCalls :
         LET s1 == Stage1SemanticCheck(ReferenceOf(item), c.out) IN
           /\ stage1_semantic' = s1
           /\ invoked' = Append(invoked, "stage1")
           \* line 65 builds the prompt before chat_infer is called at line 68
           /\ inference_calls' = IF s1.kind = "raise" THEN inference_calls
                                                      ELSE Append(inference_calls, c)
           /\ IF s1.kind = "raise"
              THEN pipe_pc' = "raised" /\ UNCHANGED pipe_out
              ELSE IF s1.should_delete
              THEN pipe_pc' = "done" /\ pipe_out' = Stage1DeleteRecord(ReferenceOf(item))
              ELSE pipe_pc' = "clean" /\ UNCHANGED pipe_out
    /\ UNCHANGED <<item, body_text, stage2_experiment, stage3_chemistry>>
    /\ UNCHANGED <<chatVars, treeVars, batchVars, mdVars, ruleVars, tableVars>>

\* line 215
PipeTitleClean ==
    /\ pipe_pc = "clean"
    /\ \E c \in CleanCalls :
         /\ body_text' = Stage1TitleClean(ReferenceOf(item), c.out)
         /\ inference_calls' = Append(inference_calls, c)
    /\ invoked' = Append(invoked, "clean")
    /\ pipe_pc' = "stage2"
    /\ UNCHANGED <<item, stage1_semantic, stage2_experiment, stage3_chemistry, pipe_out>>
    /\ UNCHANGED <<chatVars, treeVars, batchVars, mdVars, ruleVars, tableVars>>

\* lines 218-222 and 243-251: stage 2, and the return when the item is not
\* an experiment step.
PipeStage2 ==
    /\ pipe_pc = "stage2"
    /\ \E c \in ExperimentCalls :
         LET s2 == Stage2ExperimentCheck(body_text, c.out) IN
           /\ stage2_experiment' = s2
           /\ inference_calls' = Append(inference_calls, c)
           /\ IF IsExperiment(s2) = Yes
              THEN pipe_pc' = "stage3" /\ UNCHANGED pipe_out
              ELSE /\ pipe_pc' = "done"
                   /\ pipe_out' = NotExperimentRecord(ReferenceOf(item), body_text, s2)
    /\ invoked' = Append(invoked, "stage2")
    /\ UNCHANGED <<item, stage1_semantic, body_text, stage3_chemistry>>
    /\ UNCHANGED <<chatVars, treeVars, batchVars, mdVars, ruleVars, tableVars>>

\* lines 223-242: stage 3 and the return.
PipeStage3 ==
    /\ pipe_pc = "stage3"
    /\ \E c \in ChemistryCalls :
         LET s3 == Stage3ChemistryCheck(body_text, c.out) IN
           /\ stage3_chemistry' = s3
           /\ inference_calls' = Append(inference_calls, c)
           /\ pipe_out' = Stage3Record(ReferenceOf(item), body_text, stage2_experiment, s3)
    /\ invoked' = Append(invoked, "stage3")
    /\ pipe_pc' = "done"
    /\ UNCHANGED <<item, stage1_semantic, body_text, stage2_experiment>>
    /\ UNCHANGED <<chatVars, treeVars, batchVars, mdVars, ruleVars, tableVars>>

NextPipe ==
    \/ PipeItemNotDict
    \/ PipeEmptyReference
    \/ PipeStage1
    \/ PipeTitleClean
    \/ PipeStage2
    \/ PipeStage3

\* process_single_item as a function of the item and of what chat_infer hands
\* to each stage: the value returned, or Raised when an error leaves it.
Returned(rec) == [kind |-> "return", rec |-> rec]
Raised        == [kind |-> "raise", rec |-> NoRecord]

ProcessSingleItem(it, o1, oc, o2, o3) ==
    IF ~it.is_dict THEN Raised
    ELSE LET reference_text == ReferenceOf(it) IN
    IF ~reference_text.truthy THEN Returned(EmptyItemRecord)
    ELSE LET s1 == Stage1SemanticCheck(reference_text, o1) IN
    IF s1.kind = "raise" THEN Raised
    ELSE IF s1.should_delete THEN Returned(Stage1DeleteRecord(reference_text))
    ELSE LET body == Stage1TitleClean(reference_text, oc)
             s2 == Stage2ExperimentCheck(body, o2)
         IN
    IF IsExperiment(s2) = Yes
    THEN Returned(Stage3Record(reference_text, body, s2, Stage3ChemistryCheck(body, o3)))
    ELSE Returned(NotExperimentRecord(reference_text, body, s2))

----------------------------------------------------------------------------
(* DoctreeParser.build_doctree (parser/doctree.py).                        *)

MaxSections == 3    \* longest section list explored
MaxLevel    == 3    \* deepest level a section asks for

Titles   == {"T", "ROOT"}
Contents == {"", "c"}

Section(title, content, level) == [title |-> title, content |-> content, level |-> level]

SectionLists ==
    UNION { [1..n -> { Section(t, c, l) : t \in Titles, c \in Contents, l \in 1..MaxLevel }]
            : n \in 0..MaxSections }

\* Node(title, level, content, children); children holds node ids.
Node(title, level, content, children) ==
    [title |-> title, level |-> level, content |-> content, children |-> children]

RootId == 0

Top(ns, st) == ns[st[Len(st)]]

\* Variant of ClampLevel without the cut; C2 must tell them apart.
ClampLevel_none(level, top_level) == level

\* lines 153-154: a jump of more than one level below the stack top is cut.
ClampLevel(level, top_level) ==
    IF level - top_level > 1 THEN top_level + 1 ELSE level

RECURSIVE PopWhile(_, _, _)
\* lines 156-157: while stack and stack[-1].level >= level: stack.pop()
PopWhile(ns, st, level) ==
    IF st # << >> /\ Top(ns, st).level >= level
    THEN PopWhile(ns, SubSeq(st, 1, Len(st) - 1), level)
    ELSE st

TreeIdle ==
    /\ sections = << >>
    /\ tree_pc = "idle"
    /\ next_section = 0
    /\ nodes = [i \in {RootId} |-> Node("ROOT", 0, "", << >>)]
    /\ stack = << >>

\* lines 150-151: root = Node("ROOT", 0, "", []); stack = [root]
InitBuildDoctree ==
    /\ sections \in SectionLists
    /\ tree_pc = "loop"
    /\ next_section = 1
    /\ nodes = [i \in {RootId} |-> Node("ROOT", 0, "", << >>)]
    /\ stack = <<RootId>>

\* Variant of BuildDoctreeStep that puts the new node before its siblings;
\* C30 must tell them apart.
BuildDoctreeStep_prepend ==
    /\ tree_pc = "loop"
    /\ next_section <= Len(sections)
    /\ LET sec    == sections[next_section]
           level  == ClampLevel(sec.level, Top(nodes, stack).level)
           id     == Cardinality(DOMAIN nodes)
           popped == PopWhile(nodes, stack, level)
           parent == popped[Len(popped)]
       IN  /\ popped # << >>
           /\ nodes' = [i \in DOMAIN nodes \cup {id} |->
                          IF i = id THEN Node(sec.title, level, sec.content, << >>)
                          ELSE IF i = parent
                          THEN [nodes[i] EXCEPT !.children = <<id>> \o @]
                          ELSE nodes[i]]
           /\ stack' = Append(popped, id)
           /\ next_section' = next_section + 1
           /\ UNCHANGED tree_pc
    /\ UNCHANGED sections
    /\ UNCHANGED <<chatVars, pipeVars, batchVars, mdVars, ruleVars, tableVars>>

\* lines 152-159: one iteration of the loop over the sections.
BuildDoctreeStep ==
    /\ tree_pc = "loop"
    /\ next_section <= Len(sections)
    /\ LET sec    == sections[next_section]
           level  == ClampLevel(sec.level, Top(nodes, stack).level)
           id     == Cardinality(DOMAIN nodes)
           popped == PopWhile(nodes, stack, level)
       IN  IF popped = << >>
           THEN \* stack[-1] of an empty list
                /\ tree_pc' = "raised"
                /\ stack' = popped
                /\ UNCHANGED <<nodes, next_section>>
           ELSE LET parent == popped[Len(popped)] IN
                /\ nodes' = [i \in DOMAIN nodes \cup {id} |->
                               IF i = id THEN Node(sec.title, level, sec.content, << >>)
                               ELSE IF i = parent
                               THEN [nodes[i] EXCEPT !.children = Append(@, id)]
                               ELSE nodes[i]]
                /\ stack' = Append(popped, id)
                /\ next_section' = next_section + 1
                /\ UNCHANGED tree_pc
    /\ UNCHANGED sections
    /\ UNCHANGED <<chatVars, pipeVars, batchVars, mdVars, ruleVars, tableVars>>

\* line 160
BuildDoctreeReturn ==
    /\ tree_pc = "loop"
    /\ next_section > Len(sections)
    /\ tree_pc' = "returned"
    /\ UNCHANGED <<sections, next_section, nodes, stack>>
    /\ UNCHANGED <<chatVars, pipeVars, batchVars, mdVars, ruleVars, tableVars>>

NextTree == BuildDoctreeStep \/ BuildDoctreeReturn

\* The parent of a node that is not the root: the node that lists it.
ParentOf(n) == CHOOSE p \in DOMAIN nodes : \E i \in 1..Len(nodes[p].children) : nodes[p].children[i] = n

----------------------------------------------------------------------------
(* The batch entry points: process_old_extracted_file                      *)
(* (extract/stage1-3process.py), run_point_extraction and                  *)
(* run_excel_extraction (extract/point_classify.py).                       *)

MaxItems   == 3    \* most units in a batch
MaxWorkers == 2    \* the worker limit is 1 or this

Entries == {"old", "point", "excel"}

\* The units handed to the executor.  old: an entry of the two lists of the
\* input file; point: a segment of serialize_with_titles, always a dict with
\* both keys; excel: an entry of the "data" list, a dict or not.
UnitGood    == ItemDict(StrVal(<<Word("ref")>>))

UnitsOf(e) ==
    CASE e = "old"   -> {UnitGood, ItemNoRef, ItemNotDict}
      [] e = "point" -> {UnitGood}
      [] e = "excel" -> {UnitGood, ItemNotDict}

\* enumerate(all_items) counts from 0, enumerate(data, 1) from 1.
IndexOf(e, pos) == IF e = "old" THEN pos - 1 ELSE pos

\* The result field of a classification record: the cleaned response, or the
\* text "ERROR: ..." built from the error caught.
ResultText(s)   == [error |-> "", text |-> s]
ResultError(e)  == [error |-> e.type, text |-> EmptyStr]
NoResult        == [error |-> "", text |-> EmptyStr]

\* A record of the result list.  unit is what the record copies from its
\* input (title_path and text, the labels and the value, or source).
BatchRecord(index, unit, result, rec) ==
    [index |-> index, unit |-> unit, result |-> result, rec |-> rec]

\* What a future holds once its task has ended.
FutureReturn(r) == [kind |-> "return", record |-> r]
FutureRaise     == [kind |-> "raise", record |-> BatchRecord(-1, NoItem, NoResult, NoRecord)]
NoFuture        == [kind |-> "none", record |-> BatchRecord(-1, NoItem, NoResult, NoRecord)]

\* The answers the service gives to the prompts of a batch.
ClassifyResponses == { <<FENCE_JSON, WS, Word("cls"), WS, FENCE>>, <<Word("cls")>> }
BatchJudgments(k) ==
    { <<LBRACE, Field(k, Yes), RBRACE>>, <<LBRACE, Field(k, No), RBRACE>> }

BatchChatResults(texts) ==
    { Ret(s) : s \in texts } \cup { Raise([type |-> "OpenAIError", at |-> MaxAttempts]) }

\* Variant of ProcessItem without the except; C5 must tell them apart.
ProcessItem_propagate(i, unit, o) ==
    IF ~unit.is_dict THEN FutureRaise
    ELSE IF o.kind = "raise" THEN FutureRaise
    ELSE FutureReturn(BatchRecord(i, unit,
            ResultText(Strip(Remove(o.text, {FENCE, FENCE_JSON, Word("json")}))), NoRecord))

\* process_item and process_triplet: the response with the fences and the
\* word json removed, or the error marker; reading a field of an entry that is
\* not a dict is outside the try.
ProcessItem(i, unit, o) ==
    IF ~unit.is_dict THEN FutureRaise
    ELSE IF o.kind = "raise"
    THEN FutureReturn(BatchRecord(i, unit, ResultError(o.err), NoRecord))
    ELSE FutureReturn(BatchRecord(i, unit,
            ResultText(Strip(Remove(o.text, {FENCE, FENCE_JSON, Word("json")}))), NoRecord))

\* How the Stage 1 call of a unit ended when it raised, "many" otherwise.
Stage1Call(unit, o1) ==
    IF unit.is_dict /\ ReferenceOf(unit).truthy /\ o1.kind = "raise"
    THEN "stage1_raise" ELSE "many"

\* What process_single_item can hand back for a unit, over the answers of
\* the service to its four prompts; the answer to the cleaning prompt is the
\* text of the unit, which has no title to remove.
PipelineOutcomes ==
    [unit \in UnitsOf("old") |->
        { [r |-> ProcessSingleItem(unit, o1, oc, o2, o3), infer |-> Stage1Call(unit, o1)] :
             o1 \in BatchChatResults(BatchJudgments("has_semantic_info")),
             oc \in BatchChatResults({<<Word("ref")>>}),
             o2 \in BatchChatResults(BatchJudgments("is_experiment")),
             o3 \in BatchChatResults(BatchJudgments("is_chemistry")) }]

\* process_with_index: process_single_item, then the index and the source
\* written into its record; an error of process_single_item leaves it.
ProcessWithIndex(idx, unit, r) ==
    IF r.kind = "raise" THEN FutureRaise
    ELSE FutureReturn(BatchRecord(idx, unit, NoResult, r.rec))

\* Every outcome the task of a unit can have, with the way its single call
\* of chat_infer ended ("many" for the staged calls of process_single_item,
\* "stage1_raise" when the first of them raised, "none" when the task ends
\* before the call).
TaskOutcomes(e, i, unit) ==
    IF e = "old"
    THEN { [out |-> ProcessWithIndex(i, unit, x.r), infer |-> x.infer] :
             x \in PipelineOutcomes[unit] }
    ELSE { [out |-> ProcessItem(i, unit, o),
            infer |-> IF unit.is_dict THEN o.kind ELSE "none"] :
             o \in BatchChatResults(ClassifyResponses) }

RECURSIVE Insert(_, _)
\* Insertion behind every record whose index is not larger: a stable sort.
Insert(sorted, r) ==
    IF sorted = << >> THEN <<r>>
    ELSE IF Head(sorted).index <= r.index
    THEN <<Head(sorted)>> \o Insert(Tail(sorted), r)
    ELSE <<r>> \o sorted

RECURSIVE SortByIndex(_)
\* results.sort(key=lambda x: x["index"])
SortByIndex(rs) ==
    IF rs = << >> THEN << >>
    ELSE Insert(SortByIndex(SubSeq(rs, 1, Len(rs) - 1)), rs[Len(rs)])

\* The order of the list written and returned: process_old_extracted_file
\* sorts it (line 316), the two functions of point_classify.py do not.
OutputOrder(e, rs) == IF e = "old" THEN SortByIndex(rs) ELSE rs

\* lines 324-349 of stage1-3process.py
Summary(rs) ==
    [total |-> Len(rs),
     invention_point |-> Cardinality({ i \in 1..Len(rs) : rs[i].rec.is_invention_point = Yes }),
     deleted |-> Cardinality({ i \in 1..Len(rs) : rs[i].rec.is_invention_point = No }),
     experiment |-> Cardinality({ i \in 1..Len(rs) : rs[i].rec.is_experiment = Yes }),
     chemistry |-> Cardinality({ i \in 1..Len(rs) : rs[i].rec.is_chemistry = Yes })]

NoSummary == [total |-> -1, invention_point |-> -1, deleted |-> -1,
              experiment |-> -1, chemistry |-> -1]

Output(e, rs) ==
    [written |-> TRUE, results |-> rs, summary |-> IF e = "old" THEN Summary(rs) ELSE NoSummary]

NotSaved    == [written |-> FALSE, results |-> << >>, summary |-> NoSummary]
NotReturned == NotSaved

N == Len(all_items)
Positions == 1..N
Running == { p \in Positions : task[p] = "running" }

BatchIdle ==
    /\ entry = "idle"
    /\ all_items = << >>
    /\ max_workers = 0
    /\ batch_pc = "idle"
    /\ submitted = 0
    /\ task = << >>
    /\ future = << >>
    /\ inference = << >>
    /\ yielded = {}
    /\ results = << >>
    /\ saved = NotSaved
    /\ returned = NotReturned

InitBatchCall ==
    /\ entry \in Entries
    /\ all_items \in UNION { [1..n -> UnitsOf(entry)] : n \in 0..MaxItems }
    /\ max_workers \in {1, MaxWorkers}
    /\ batch_pc = IF all_items = << >> THEN "collect" ELSE "submit"
    /\ submitted = 0
    /\ task = [p \in 1..Len(all_items) |-> "none"]
    /\ future = [p \in 1..Len(all_items) |-> NoFuture]
    /\ inference = [p \in 1..Len(all_items) |-> "none"]
    /\ yielded = {}
    /\ results = << >>
    /\ saved = NotSaved
    /\ returned = NotReturned

\* executor.submit of the next unit, in the comprehension that builds futures.
Submit ==
    /\ batch_pc = "submit"
    /\ submitted < N
    /\ submitted' = submitted + 1
    /\ task' = [task EXCEPT ![submitted + 1] = "queued"]
    /\ batch_pc' = IF submitted + 1 = N THEN "collect" ELSE "submit"
    /\ UNCHANGED <<entry, all_items, max_workers, future, inference, yielded, results,
                   saved, returned>>
    /\ UNCHANGED <<chatVars, pipeVars, treeVars, mdVars, ruleVars, tableVars>>

\* A free worker thread takes the oldest queued task.
WorkerStart(p) ==
    /\ task[p] = "queued"
    /\ \A q \in 1..(p - 1) : task[q] # "queued"
    /\ Cardinality(Running) < max_workers
    /\ task' = [task EXCEPT ![p] = "running"]
    /\ UNCHANGED <<entry, all_items, max_workers, batch_pc, submitted, future, inference,
                   yielded, results, saved, returned>>
    /\ UNCHANGED <<chatVars, pipeVars, treeVars, mdVars, ruleVars, tableVars>>

\* The task of a unit ends: its future holds a record or an error.
WorkerFinish(p) ==
    /\ task[p] = "running"
    /\ \E end \in TaskOutcomes(entry, IndexOf(entry, p), all_items[p]) :
         /\ future' = [future EXCEPT ![p] = end.out]
         /\ inference' = [inference EXCEPT ![p] = end.infer]
    /\ task' = [task EXCEPT ![p] = "finished"]
    /\ UNCHANGED <<entry, all_items, max_workers, batch_pc, submitted, yielded,
                   results, saved, returned>>
    /\ UNCHANGED <<chatVars, pipeVars, treeVars, mdVars, ruleVars, tableVars>>

\* Variant of CollectResult that appends the record twice; C29 must tell
\* them apart.
CollectResult_twice(p) ==
    /\ batch_pc = "collect"
    /\ task[p] = "finished"
    /\ p \notin yielded
    /\ future[p].kind = "return"
    /\ yielded' = yielded \cup {p}
    /\ results' = results \o <<future[p].record, future[p].record>>
    /\ UNCHANGED <<entry, all_items, max_workers, batch_pc, submitted, task, future,
                   inference, saved, returned>>
    /\ UNCHANGED <<chatVars, pipeVars, treeVars, mdVars, ruleVars, tableVars>>

\* as_completed yields a finished future and future.result() returns: the
\* collector appends the record.
CollectResult(p) ==
    /\ batch_pc = "collect"
    /\ task[p] = "finished"
    /\ p \notin yielded
    /\ future[p].kind = "return"
    /\ yielded' = yielded \cup {p}
    /\ results' = Append(results, future[p].record)
    /\ UNCHANGED <<entry, all_items, max_workers, batch_pc, submitted, task, future,
                   inference, saved, returned>>
    /\ UNCHANGED <<chatVars, pipeVars, treeVars, mdVars, ruleVars, tableVars>>

\* as_completed yields a finished future and future.result() raises the
\* error of its task: the error leaves the loop and the with block is left,
\* which waits for the tasks still queued or running.
CollectError(p) ==
    /\ batch_pc = "collect"
    /\ task[p] = "finished"
    /\ p \notin yielded
    /\ future[p].kind = "raise"
    /\ yielded' = yielded \cup {p}
    /\ batch_pc' = "unwinding"
    /\ UNCHANGED <<entry, all_items, max_workers, submitted, task, future, inference,
                   results, saved, returned>>
    /\ UNCHANGED <<chatVars, pipeVars, treeVars, mdVars, ruleVars, tableVars>>

\* The executor has shut down: the error leaves the entry point, nothing is
\* written and nothing is returned.
BatchFails ==
    /\ batch_pc = "unwinding"
    /\ \A p \in Positions : task[p] = "finished"
    /\ batch_pc' = "failed"
    /\ UNCHANGED <<entry, all_items, max_workers, submitted, task, future, inference,
                   yielded, results, saved, returned>>
    /\ UNCHANGED <<chatVars, pipeVars, treeVars, mdVars, ruleVars, tableVars>>

\* Variant of BatchReturns that does not wait for the collector to drain the
\* futures; C3 must tell them apart.
BatchReturns_early ==
    /\ batch_pc = "collect"
    /\ \A p \in Positions : task[p] = "finished" /\ future[p].kind = "return"
    /\ results' = OutputOrder(entry, results)
    /\ saved' = Output(entry, OutputOrder(entry, results))
    /\ returned' = Output(entry, OutputOrder(entry, results))
    /\ batch_pc' = "returned"
    /\ UNCHANGED <<entry, all_items, max_workers, submitted, task, future, inference,
                   yielded>>
    /\ UNCHANGED <<chatVars, pipeVars, treeVars, mdVars, ruleVars, tableVars>>

\* Every future has been yielded: the list is put in its output order,
\* written to the output file and returned.
BatchReturns ==
    /\ batch_pc = "collect"
    /\ yielded = Positions
    /\ results' = OutputOrder(entry, results)
    /\ saved' = Output(entry, OutputOrder(entry, results))
    /\ returned' = Output(entry, OutputOrder(entry, results))
    /\ batch_pc' = "returned"
    /\ UNCHANGED <<entry, all_items, max_workers, submitted, task, future, inference,
                   yielded>>
    /\ UNCHANGED <<chatVars, pipeVars, treeVars, mdVars, ruleVars, tableVars>>

NextBatch ==
    \/ Submit
    \/ \E p \in Positions : WorkerStart(p)
    \/ \E p \in Positions : WorkerFinish(p)
    \/ \E p \in Positions : CollectResult(p)
    \/ \E p \in Positions : CollectError(p)
    \/ BatchFails
    \/ BatchReturns

----------------------------------------------------------------------------
(* DoctreeParser.parse_markdown and serialize_with_titles                  *)
(* (parser/doctree.py).                                                    *)
(*                                                                         *)
(* A text is a sequence of lines.  A heading line is "#"s, blanks and a    *)
(* title that is not blank and may itself begin with "#"s, as in           *)
(* "# #######T"; a body line is a token string without a leading "#".      *)
(* A title is a name whose characters TitleChars gives, so                 *)
(* that the patterns of rule_based_level are matched on characters.        *)

MaxLines == 3    \* most lines in a text

STOP     == Tok("stop", "", "")      \* one of the marks that end a sentence
HASH     == Tok("hash", "", "")      \* #
CN       == Tok("cn", "", "")        \* a character of CN_NUMS
DUN      == Tok("dun", "", "")       \* 、
DOT      == Tok("dot", "", "")       \* .
LPAR     == Tok("lpar", "", "")      \* ( or its full-width form
RPAR     == Tok("rpar", "", "ascii") \* )
RPARFULL == Tok("rpar", "", "full")  \* the full-width )
DIGIT    == Tok("digit", "", "")     \* a decimal digit
LBRACKET == Tok("lbracket", "", "")  \* the opening corner bracket
RBRACKET == Tok("rbracket", "", "")  \* the closing corner bracket
KEYWORD  == Tok("keyword", "", "")   \* one of the six keywords, e.g. 制备
Num(d)   == Tok("num", "", d)        \* a run of digits in a response

\* The titles of the headings explored, and their characters.
MdTitles == {"yi,T", "(yi)T", "zhibei", "T", "7#T"}

TitleChars(title) ==
    CASE title = "yi,T"   -> <<CN, DUN, Word("T")>>
      [] title = "(yi)T"  -> <<LPAR, CN, RPARFULL, Word("T")>>
      [] title = "zhibei" -> <<Word("T"), KEYWORD>>
      [] title = "T"      -> <<Word("T")>>
      [] title = "7#T"    -> <<HASH, HASH, HASH, HASH, HASH, HASH, HASH, Word("T")>>
      [] title = "ROOT"   -> <<Word("ROOT")>>

HeadingLine(title) == [heading |-> TRUE, title |-> title, text |-> EmptyStr]
BodyLine(s)        == [heading |-> FALSE, title |-> "", text |-> s]

BodyTexts == { <<Word("a"), STOP, WS, Word("b")>>, <<WS>> }

MdLines == { HeadingLine(t) : t \in MdTitles } \cup { BodyLine(s) : s \in BodyTexts }

MdTexts == UNION { [1..n -> MdLines] : n \in 0..MaxLines }

\* extract_titles: the heading lines in document order, pos being the line.
ExtractTitles(text) ==
    LET at == { i \in 1..Len(text) : text[i].heading }
        nth(k) == CHOOSE i \in at : Cardinality({ j \in at : j < i }) = k - 1
    IN  [k \in 1..Cardinality(at) |-> [pos |-> nth(k), title |-> text[nth(k)].title]]

RECURSIVE DropLeadingBlank(_)
DropLeadingBlank(lines) ==
    IF lines # << >> /\ Strip(Head(lines)) = EmptyStr
    THEN DropLeadingBlank(Tail(lines)) ELSE lines

RECURSIVE DropTrailingBlank(_)
DropTrailingBlank(lines) ==
    IF lines # << >> /\ Strip(lines[Len(lines)]) = EmptyStr
    THEN DropTrailingBlank(SubSeq(lines, 1, Len(lines) - 1)) ELSE lines

\* str.strip() of lines joined by newlines: the blank lines at both ends
\* dropped, the first line stripped on the left and the last on the right.
StripLines(lines) ==
    LET kept == DropTrailingBlank(DropLeadingBlank(lines))
    IN  [i \in 1..Len(kept) |->
            LET l == IF i = 1 THEN LStrip(kept[i]) ELSE kept[i]
            IN  IF i = Len(kept) THEN RStrip(l) ELSE l]

\* split_by_titles: for each title the lines from its heading line up to the
\* next heading line (or the end of the text), the heading line dropped.
SplitByTitles(text, ts) ==
    [i \in 1..Len(ts) |->
        LET start == ts[i].pos
            end   == IF i + 1 <= Len(ts) THEN ts[i + 1].pos ELSE Len(text) + 1
            lines == [k \in 1..(end - start - 1) |-> text[start + k].text]
        IN  [title |-> ts[i].title, section |-> StripLines(lines)]]

NoLevel == 0    \* the None of a rule without a level

RECURSIVE RunLen(_, _, _)
\* Length of the longest run of tokens of type t that starts at position i.
RunLen(s, i, t) ==
    IF i <= Len(s) /\ s[i].t = t THEN 1 + RunLen(s, i + 1, t) ELSE 0

\* The type of the token at position i, "" past the end.
TypeAt(s, i) == IF i \in 1..Len(s) THEN s[i].t ELSE ""

\* Variant of RuleBasedLevelOf that looks for a keyword before the markers;
\* C21 must tell them apart.
RuleBasedLevelOf_weakfirst(chars) ==
    LET s  == Strip(chars)
        cn == RunLen(s, 1, "cn")
        pc == RunLen(s, 2, "cn")
        pd == RunLen(s, 2, "digit")
        d  == RunLen(s, 1, "digit")
        ws == RunLen(s, d + 1, "ws")
    IN  IF TypeAt(s, 1) = "hash"
        THEN [level |-> RunLen(s, 1, "hash"), strength |-> "strong"]
        ELSE IF \E i \in 1..Len(s) : s[i].t = "keyword"
        THEN [level |-> NoLevel, strength |-> "weak"]
        ELSE IF cn >= 1 /\ TypeAt(s, cn + 1) \in {"dun", "dot"}
        THEN [level |-> 1, strength |-> "strong"]
        ELSE IF TypeAt(s, 1) = "lpar" /\ pc >= 1 /\ TypeAt(s, pc + 2) = "rpar"
        THEN [level |-> 2, strength |-> "strong"]
        ELSE IF TypeAt(s, 1) = "lpar" /\ pd >= 1 /\ TypeAt(s, pd + 2) = "rpar"
        THEN [level |-> 3, strength |-> "strong"]
        ELSE IF d >= 1 /\ ( \/ TypeAt(s, d + ws + 1) \in {"dun", "dot"}
                            \/ (d + ws + 1 <= Len(s) /\ s[d + ws + 1] = RPAR) )
        THEN [level |-> 3, strength |-> "strong"]
        ELSE IF Len(s) >= 2 /\ TypeAt(s, 1) = "lbracket" /\ TypeAt(s, Len(s)) = "rbracket"
        THEN [level |-> 3, strength |-> "strong"]
        ELSE [level |-> NoLevel, strength |-> "unknow"]

\* rule_based_level on the characters of a title: the rules in the order of
\* lines 90-106.
RuleBasedLevelOf(chars) ==
    LET s  == Strip(chars)
        cn == RunLen(s, 1, "cn")
        pc == RunLen(s, 2, "cn")
        pd == RunLen(s, 2, "digit")
        d  == RunLen(s, 1, "digit")
        ws == RunLen(s, d + 1, "ws")
    IN  IF TypeAt(s, 1) = "hash"
        THEN [level |-> RunLen(s, 1, "hash"), strength |-> "strong"]
        ELSE IF cn >= 1 /\ TypeAt(s, cn + 1) \in {"dun", "dot"}
        THEN [level |-> 1, strength |-> "strong"]
        ELSE IF TypeAt(s, 1) = "lpar" /\ pc >= 1 /\ TypeAt(s, pc + 2) = "rpar"
        THEN [level |-> 2, strength |-> "strong"]
        ELSE IF TypeAt(s, 1) = "lpar" /\ pd >= 1 /\ TypeAt(s, pd + 2) = "rpar"
        THEN [level |-> 3, strength |-> "strong"]
        ELSE IF d >= 1 /\ ( \/ TypeAt(s, d + ws + 1) \in {"dun", "dot"}
                            \/ (d + ws + 1 <= Len(s) /\ s[d + ws + 1] = RPAR) )
        THEN [level |-> 3, strength |-> "strong"]
        ELSE IF Len(s) >= 2 /\ TypeAt(s, 1) = "lbracket" /\ TypeAt(s, Len(s)) = "rbracket"
        THEN [level |-> 3, strength |-> "strong"]
        ELSE IF \E i \in 1..Len(s) : s[i].t = "keyword"
        THEN [level |-> NoLevel, strength |-> "weak"]
        ELSE [level |-> NoLevel, strength |-> "unknow"]

RuleBasedLevel(title) == RuleBasedLevelOf(TitleChars(title))

\* int() of a run of digits
IntOf(d) ==
    CASE d = "0" -> 0 [] d = "1" -> 1 [] d = "2" -> 2 [] d = "3" -> 3 [] d = "7" -> 7

Min(a, b) == IF a <= b THEN a ELSE b
Max(a, b) == IF a >= b THEN a ELSE b

\* What the service answers to the prompt of llm_predict_level.
LevelResponses ==
    { <<Num("0")>>, <<WS, Word("x"), Num("2")>>, <<Num("7"), WS, Num("1")>>, <<Word("x")>> }

LevelOutcomes ==
    { SvcRaise("OpenAIError") } \cup { SvcText(s) : s \in LevelResponses }

\* The response carries an integer: re.search(r"\d+", text) matches.
HasInteger(svc) ==
    /\ svc.kind = "completion"
    /\ svc.shape = "text"
    /\ \E i \in 1..Len(svc.text) : svc.text[i].t = "num"

\* Variant of LlmPredictLevel that takes the last integer of the response
\* and does not cut it to 1..6; C23 must tell them apart.
LlmPredictLevel_lastraw(has_client, svc) ==
    IF ~has_client THEN 3
    ELSE IF ~HasInteger(svc) THEN 3
    ELSE LET text == Strip(svc.text)
             last == CHOOSE i \in 1..Len(text) :
                         /\ text[i].t = "num"
                         /\ \A j \in (i + 1)..Len(text) : text[j].t # "num"
         IN  IntOf(text[last].v)

\* llm_predict_level: 3 without a client, on an error and on a response
\* without an integer; else the first integer of the response cut to 1..6.
LlmPredictLevel(has_client, svc) ==
    IF ~has_client THEN 3
    ELSE IF ~HasInteger(svc) THEN 3
    ELSE LET text  == Strip(svc.text)
             first == CHOOSE i \in 1..Len(text) :
                         /\ text[i].t = "num"
                         /\ \A j \in 1..(i - 1) : text[j].t # "num"
             lv    == IntOf(text[first].v)
         IN  Max(1, Min(lv, 6))

\* Variant of WeakLevel without the cap; C20 must tell them apart.
WeakLevel_uncapped(last) == IF last # 0 THEN last + 1 ELSE 2

\* line 177: level = min(last_strong + 1 if last_strong else 2, 3)
WeakLevel(last) == Min(IF last # 0 THEN last + 1 ELSE 2, 3)

\* What the service does when a heading is classified: it is called only for
\* a title no rule matches, and only when a client is configured.
LevelCalls(strength, has_client) ==
    IF strength = "unknow" /\ has_client THEN LevelOutcomes ELSE {SvcNotCalled}

\* Node.to_dict, on the arena of build_doctree.
RECURSIVE SplitAtStops(_)
\* re.split on the marks that end a sentence
SplitAtStops(s) ==
    LET i == Find(s, STOP)
    IN  IF i = -1 THEN <<s>>
        ELSE <<Slice(s, 0, i)>> \o SplitAtStops(Slice(s, i + 1, Len(s)))

RECURSIVE SplitToSentences(_)
\* split_to_sentences of a content given by its lines: the pieces between
\* the marks and the line ends, stripped, the empty ones dropped.
SplitToSentences(lines) ==
    IF lines = << >> THEN << >>
    ELSE LET pieces   == SplitAtStops(Head(lines))
             stripped == [i \in 1..Len(pieces) |-> Strip(pieces[i])]
             NotEmpty(p) == p # EmptyStr
         IN  SelectSeq(stripped, NotEmpty) \o SplitToSentences(Tail(lines))

RECURSIVE ToDict(_, _)
ToDict(ns, id) ==
    [title |-> ns[id].title,
     level |-> ns[id].level,
     content |-> SplitToSentences(ns[id].content),
     children |-> [i \in 1..Len(ns[id].children) |-> ToDict(ns, ns[id].children[i])]]

RECURSIVE Join(_, _)
\* sep.join(parts): the parts with the separator between each two of them.
\* A title is one piece of the resulting string and the separator another.
Join(sep, parts) ==
    IF Len(parts) <= 1 THEN parts
    ELSE <<Head(parts), sep>> \o Join(sep, Tail(parts))

\* One record of serialize_with_titles.
Segment(path, text) == [title_path |-> Join(" > ", path), text |-> text]

RECURSIVE Traverse(_, _)
RECURSIVE TraverseAll(_, _)
\* Variant of Traverse that descends into the children before it emits the
\* sentences of the node; C32 must tell them apart.
Traverse_childrenfirst(node, path) ==
    LET current_path == IF node.title # "ROOT" THEN Append(path, node.title) ELSE path
        NotBlank(sent) == Strip(sent) # EmptyStr
        sents == SelectSeq(node.content, NotBlank)
    IN  TraverseAll(node.children, current_path)
            \o [k \in 1..Len(sents) |-> Segment(current_path, Strip(sents[k]))]

\* traverse(node, path) of serialize_with_titles: the records it appends.
Traverse(node, path) ==
    LET current_path == IF node.title # "ROOT" THEN Append(path, node.title) ELSE path
        NotBlank(sent) == Strip(sent) # EmptyStr
        sents == SelectSeq(node.content, NotBlank)
    IN  [k \in 1..Len(sents) |-> Segment(current_path, Strip(sents[k]))]
            \o TraverseAll(node.children, current_path)

TraverseAll(children, path) ==
    IF children = << >> THEN << >>
    ELSE Traverse(Head(children), path) \o TraverseAll(Tail(children), path)

\* Variant of SerializeWithTitles whose list of records outlives the call;
\* C27 must tell them apart.
SerializeWithTitles_accumulating(parsed) == segments \o TraverseAll(parsed, << >>)

\* lines 265-281: results = [], then traverse(node, []) for each node.
SerializeWithTitles(parsed) == TraverseAll(parsed, << >>)

\* What is kept of a finished run: the sections built from, the tree that
\* parse_markdown returned and the records of serialize_with_titles.
Run(secs, tree, segs) == [ran |-> TRUE, sections |-> secs, tree |-> tree, segments |-> segs]
NoRun == [ran |-> FALSE, sections |-> << >>, tree |-> << >>, segments |-> << >>]

MdIdle ==
    /\ md_text = << >>
    /\ client = FALSE
    /\ md_pc = "idle"
    /\ titles = << >>
    /\ last_strong = 0
    /\ sections_meta = << >>
    /\ prev_titles = << >>
    /\ level_log = << >>
    /\ parsed_tree = << >>
    /\ segments = << >>
    /\ earlier = NoRun

\* lines 163-167, self.client being set or not by __init__
InitParseMarkdown ==
    /\ md_text \in MdTexts
    /\ client \in BOOLEAN
    /\ md_pc = "start"
    /\ titles = << >>
    /\ last_strong = 0
    /\ sections_meta = << >>
    /\ prev_titles = << >>
    /\ level_log = << >>
    /\ parsed_tree = << >>
    /\ segments = << >>
    /\ earlier = NoRun

\* line 164
MdExtractTitles ==
    /\ md_pc = "start"
    /\ titles' = ExtractTitles(md_text)
    /\ md_pc' = "classify"
    /\ UNCHANGED <<md_text, client, last_strong, sections_meta, prev_titles, level_log,
                   parsed_tree, segments, earlier>>
    /\ UNCHANGED <<chatVars, pipeVars, treeVars, batchVars, ruleVars, tableVars>>

\* lines 169-185: one iteration of the loop over the titles.
MdClassify ==
    /\ md_pc = "classify"
    /\ Len(sections_meta) < Len(titles)
    /\ LET title == titles[Len(sections_meta) + 1].title
           rule  == RuleBasedLevel(title)
       IN  \E svc \in LevelCalls(rule.strength, client) :
             LET fallback == rule.strength \notin {"strong", "weak"}
                 level == CASE rule.strength = "strong" -> rule.level
                            [] rule.strength = "weak"   -> WeakLevel(last_strong)
                            [] fallback -> LlmPredictLevel(client, svc)
                 after == IF rule.strength = "weak" THEN last_strong ELSE level
             IN  /\ last_strong' = after
                 /\ sections_meta' = Append(sections_meta, [title |-> title, level |-> level])
                 /\ prev_titles' = Append(prev_titles, title)
                 /\ level_log' = Append(level_log,
                        [title |-> title, strength |-> rule.strength,
                         fallback |-> fallback, svc |-> svc,
                         level |-> level, before |-> last_strong, after |-> after])
    /\ UNCHANGED <<md_text, client, md_pc, titles, parsed_tree, segments, earlier>>
    /\ UNCHANGED <<chatVars, pipeVars, treeVars, batchVars, ruleVars, tableVars>>

\* lines 187-192: the sections cut out and handed to build_doctree with
\* their levels.
MdCallBuildDoctree ==
    /\ md_pc = "classify"
    /\ Len(sections_meta) = Len(titles)
    /\ LET split_sections == SplitByTitles(md_text, titles)
       IN  sections' = [i \in 1..Min(Len(split_sections), Len(sections_meta)) |->
                           Section(split_sections[i].title, split_sections[i].section,
                                   sections_meta[i].level)]
    /\ tree_pc' = "loop"
    /\ next_section' = 1
    /\ nodes' = [i \in {RootId} |-> Node("ROOT", 0, "", << >>)]
    /\ stack' = <<RootId>>
    /\ md_pc' = "build"
    /\ UNCHANGED <<md_text, client, titles, last_strong, sections_meta, prev_titles,
                   level_log, parsed_tree, segments, earlier>>
    /\ UNCHANGED <<chatVars, pipeVars, batchVars, ruleVars, tableVars>>

\* lines 193-198: result = [c.to_dict() for c in root.children]
MdReturn ==
    /\ md_pc = "build"
    /\ tree_pc = "returned"
    /\ parsed_tree' = [i \in 1..Len(nodes[RootId].children) |->
                          ToDict(nodes, nodes[RootId].children[i])]
    /\ md_pc' = "parsed"
    /\ UNCHANGED <<md_text, client, titles, last_strong, sections_meta, prev_titles,
                   level_log, segments, earlier>>
    /\ UNCHANGED <<chatVars, pipeVars, treeVars, batchVars, ruleVars, tableVars>>

\* serialize_with_titles on the result of parse_markdown
\* (point_classify.py line 47).
MdSerialize ==
    /\ md_pc = "parsed"
    /\ segments' = SerializeWithTitles(parsed_tree)
    /\ md_pc' = IF earlier.ran THEN "again" ELSE "flattened"
    /\ UNCHANGED <<md_text, client, titles, last_strong, sections_meta, prev_titles,
                   level_log, parsed_tree, earlier>>
    /\ UNCHANGED <<chatVars, pipeVars, treeVars, batchVars, ruleVars, tableVars>>

\* A second call of serialize_with_titles on the tree already flattened.
MdSerializeAgain ==
    /\ md_pc = "flattened"
    /\ ~earlier.ran
    /\ earlier' = Run(sections, parsed_tree, segments)
    /\ segments' = SerializeWithTitles(parsed_tree)
    /\ md_pc' = "again"
    /\ UNCHANGED <<md_text, client, titles, last_strong, sections_meta, prev_titles,
                   level_log, parsed_tree>>
    /\ UNCHANGED <<chatVars, pipeVars, treeVars, batchVars, ruleVars, tableVars>>

\* A second call of build_doctree on the sections of the first (lines
\* 150-151: a new root and a new stack), to be followed by to_dict and
\* serialize_with_titles as before.
MdBuildAgain ==
    /\ md_pc = "flattened"
    /\ ~earlier.ran
    /\ earlier' = Run(sections, parsed_tree, segments)
    /\ tree_pc' = "loop"
    /\ next_section' = 1
    /\ nodes' = [i \in {RootId} |-> Node("ROOT", 0, "", << >>)]
    /\ stack' = <<RootId>>
    /\ md_pc' = "build"
    /\ UNCHANGED <<md_text, client, titles, last_strong, sections_meta, prev_titles,
                   level_log, parsed_tree, segments, sections>>
    /\ UNCHANGED <<chatVars, pipeVars, batchVars, ruleVars, tableVars>>

NextMarkdown ==
    \/ MdExtractTitles
    \/ MdClassify
    \/ MdCallBuildDoctree
    \/ BuildDoctreeStep
    \/ BuildDoctreeReturn
    \/ MdReturn
    \/ MdSerialize
    \/ MdSerializeAgain
    \/ MdBuildAgain

----------------------------------------------------------------------------
(* serialize_with_titles on its own: the method is public and takes any    *)
(* list of node dicts, so its argument is drawn from every forest of at    *)
(* most MaxNodes nodes.  A heading line "# ROOT" gives a node whose title  *)
(* is ROOT; a content may hold a blank sentence and a padded one, which    *)
(* traverse skips and strips.                                              *)

MaxNodes == 3

FlatTitles == {"T", "ROOT"}

FlatContents ==
    { << >>,
      << <<Word("a")>> >>,
      << <<Word("b")>>, <<WS>>, <<WS, Word("c")>> >> }

\* The shapes of a forest of n nodes: the parent of node i is an earlier
\* node, 0 standing for the list itself.
ParentVectors(n) == { par \in [1..n -> 0..(n - 1)] : \A i \in 1..n : par[i] < i }

\* The nodes whose parent is i, in order.
KidsOf(par, i) ==
    LET IsKid(j) == par[j] = i
    IN  SelectSeq([j \in 1..Len(par) |-> j], IsKid)

RECURSIVE NodeDict(_, _, _, _)
\* The dict of node i: the keys that Node.to_dict writes.
NodeDict(par, lab, i, level) ==
    LET kids == KidsOf(par, i)
    IN  [title |-> lab[i][1],
         level |-> level,
         content |-> lab[i][2],
         children |-> [k \in 1..Len(kids) |-> NodeDict(par, lab, kids[k], level + 1)]]

Forest(par, lab) ==
    LET kids == KidsOf(par, 0)
    IN  [k \in 1..Len(kids) |-> NodeDict(par, lab, kids[k], 1)]

\* The forests of at most the given number of nodes.
ParsedTrees(most) ==
    UNION { { Forest(par, lab) : par \in ParentVectors(n),
                                 lab \in [1..n -> FlatTitles \X FlatContents] }
            : n \in 0..most }

\* point_classify.py line 47: the flattener is called on a parsed tree.
InitSerializeCall ==
    /\ md_text = << >>
    /\ client = FALSE
    /\ md_pc = "parsed"
    /\ titles = << >>
    /\ last_strong = 0
    /\ sections_meta = << >>
    /\ prev_titles = << >>
    /\ level_log = << >>
    /\ parsed_tree \in ParsedTrees(MaxNodes)
    /\ segments = << >>
    /\ earlier = NoRun

NextFlatten == MdSerialize

----------------------------------------------------------------------------
(* DoctreeParser.rule_based_level (parser/doctree.py) as a function of the *)
(* characters of a title.                                                  *)

MaxTitleLen == 4    \* most characters in a title

\* The characters a title is made of: those the patterns of lines 90-104
\* tell apart, a blank and a character none of them names.
TitleAlphabet ==
    {HASH, CN, DUN, DOT, LPAR, RPAR, RPARFULL, DIGIT, LBRACKET, RBRACKET, KEYWORD,
     WS, Word("T")}

RuleTitles == UNION { [1..n -> TitleAlphabet] : n \in 0..MaxTitleLen }

NoRule == [level |-> NoLevel, strength |-> ""]

RuleIdle ==
    /\ rule_title = << >>
    /\ rule_pc = "idle"
    /\ rule_out = NoRule

InitRuleCall ==
    /\ rule_title \in RuleTitles
    /\ rule_pc = "start"
    /\ rule_out = NoRule

\* lines 88-106
RuleReturn ==
    /\ rule_pc = "start"
    /\ rule_out' = RuleBasedLevelOf(rule_title)
    /\ rule_pc' = "returned"
    /\ UNCHANGED rule_title
    /\ UNCHANGED <<chatVars, pipeVars, treeVars, batchVars, mdVars, tableVars>>

NextRule == RuleReturn

----------------------------------------------------------------------------
(* DoctreeParser.parse_table (parser/doctree.py).                          *)
(*                                                                         *)
(* The dict handed to parse_table is given by its content list.  A cell is *)
(* None or a value with its str() form; rows and columns are counted from  *)
(* 0 as in the code.                                                       *)

MaxRows == 2    \* most rows in the data of a table

\* The lengths of a data row and the values of row_label_col_index.
RowLengths == 0..2
LabelColumns == 0..2

CellText(s) == [none |-> FALSE, text |-> s]
CellNone    == [none |-> TRUE, text |-> EmptyStr]

\* "", " ", "a", " b " and None
Cells ==
    { CellText(EmptyStr), CellText(<<WS>>), CellText(<<Word("a")>>),
      CellText(<<WS, Word("b"), WS>>), CellNone }

TableRows == UNION { [1..n -> Cells] : n \in RowLengths }

TableDatas == UNION { [1..n -> TableRows] : n \in 0..MaxRows }

\* The headers a table declares (parse_excel.py line 189: the first row of
\* the sheet).
DeclaredHeaders == <<CellText(<<WS, Word("h")>>)>>

TextItem == [type |-> "text", headers |-> << >>, data |-> << >>]
TableItem(headers, data) == [type |-> "table", headers |-> headers, data |-> data]

\* A second table, after the one parsed.
OtherTable ==
    TableItem(DeclaredHeaders, << <<CellText(<<Word("a")>>), CellText(<<Word("a")>>)>>,
                                  <<CellText(<<Word("a")>>), CellText(<<Word("a")>>)>> >>)

\* A first table of two rows whose second column differs from OtherTable.
FirstOfSeveral ==
    TableItem(DeclaredHeaders, << <<CellText(<<Word("a")>>), CellText(<<Word("b")>>)>>,
                                  <<CellText(<<Word("a")>>), CellText(<<WS, Word("b"), WS>>)>> >>)

\* The content lists explored: without a table, with one table, and with a
\* text item before the first table and another table after it (excel_to_json
\* writes one text item and one table item for each sheet).
ExcelContents ==
    { << >>, <<TextItem>> }
      \cup { <<TableItem(DeclaredHeaders, d)>> : d \in TableDatas }
      \cup { <<TextItem, TableItem(DeclaredHeaders, d), OtherTable>> :
                d \in { t \in TableDatas : Len(t) <= 1 } }
      \cup { <<TextItem, FirstOfSeveral, TextItem, OtherTable>> }

\* str(cell)
StrOf(cell) == IF cell.none THEN <<Word("None")>> ELSE cell.text

\* f"Row{i}" and f"Col{j}"
SyntheticLabel(prefix, n) == <<Word(prefix), Tok("index", "", ToString(n))>>

Triplet(row_label, col_label, value, i, j) ==
    [row_label |-> row_label, col_label |-> col_label, value |-> value,
     row_index |-> i, col_index |-> j]

\* line 221: not row or all(v == "" or v is None for v in row)
RowIsEmpty(row) ==
    \/ row = << >>
    \/ \A k \in 1..Len(row) : row[k].none \/ row[k].text = EmptyStr

\* line 223
RowLabel(row, i, c) ==
    IF c < Len(row) THEN Strip(StrOf(row[c + 1])) ELSE SyntheticLabel("Row", i)

\* line 230
ColLabel(col_labels, j) ==
    IF j < Len(col_labels) THEN col_labels[j + 1] ELSE SyntheticLabel("Col", j)

RECURSIVE CellsFrom(_, _, _, _, _)
\* lines 225-237: the triplets appended for the cells j, j+1, ... of row i.
CellsFrom(row, i, j, col_labels, c) ==
    IF j >= Len(row) THEN << >>
    ELSE LET value == Strip(StrOf(row[j + 1]))
             here  == IF value = EmptyStr \/ j = c THEN << >>
                      ELSE IF i # 0
                      THEN <<Triplet(RowLabel(row, i, c), ColLabel(col_labels, j), value, i, j)>>
                      ELSE << >>
         IN  here \o CellsFrom(row, i, j + 1, col_labels, c)

RECURSIVE RowsFrom(_, _, _, _)
\* lines 219-237: the triplets appended for the rows i, i+1, ... of data.
RowsFrom(data, i, col_labels, c) ==
    IF i >= Len(data) THEN << >>
    ELSE LET row  == data[i + 1]
             here == IF RowIsEmpty(row) THEN << >> ELSE CellsFrom(row, i, 0, col_labels, c)
         IN  here \o RowsFrom(data, i + 1, col_labels, c)

\* line 203
TableItems(content) ==
    LET IsTable(x) == x.type = "table"
    IN  SelectSeq(content, IsTable)

\* lines 212-217: the labels of the columns, stripped.
ColLabels(table, h) ==
    LET chosen == IF h < Len(table.data) THEN table.data[h + 1] ELSE table.headers
    IN  [k \in 1..Len(chosen) |-> Strip(StrOf(chosen[k]))]

TableReturned(ts) == [kind |-> "return", triplets |-> ts, err |-> ""]
TableRaised(e)    == [kind |-> "raise", triplets |-> << >>, err |-> e]
NoTableOut        == [kind |-> "none", triplets |-> << >>, err |-> ""]

\* Variant of ParseTable that works on the last table item and returns an
\* empty list when there is none; C36 must tell them apart.
ParseTable_lasttable(content, h, c) ==
    IF TableItems(content) = << >> THEN TableReturned(<< >>)
    ELSE LET table == TableItems(content)[Len(TableItems(content))]
         IN  TableReturned(RowsFrom(table.data, 0, ColLabels(table, h), c))

\* parse_table(excel_json, header_row_index = h, row_label_col_index = c)
ParseTable(content, h, c) ==
    IF TableItems(content) = << >> THEN TableRaised("ValueError")
    ELSE LET table == TableItems(content)[1]
         IN  TableReturned(RowsFrom(table.data, 0, ColLabels(table, h), c))

TableIdle ==
    /\ excel_json = << >>
    /\ header_row_index = 0
    /\ row_label_col_index = 0
    /\ table_pc = "idle"
    /\ table_out = NoTableOut

InitParseTable ==
    /\ excel_json \in ExcelContents
    /\ header_row_index \in 0..MaxRows
    /\ row_label_col_index \in LabelColumns
    /\ table_pc = "start"
    /\ table_out = NoTableOut

\* lines 203-205
ParseTableRaises ==
    /\ table_pc = "start"
    /\ ParseTable(excel_json, header_row_index, row_label_col_index).kind = "raise"
    /\ table_out' = ParseTable(excel_json, header_row_index, row_label_col_index)
    /\ table_pc' = "raised"
    /\ UNCHANGED <<excel_json, header_row_index, row_label_col_index>>
    /\ UNCHANGED <<chatVars, pipeVars, treeVars, batchVars, mdVars, ruleVars>>

\* lines 207-239
ParseTableReturns ==
    /\ table_pc = "start"
    /\ ParseTable(excel_json, header_row_index, row_label_col_index).kind = "return"
    /\ table_out' = ParseTable(excel_json, header_row_index, row_label_col_index)
    /\ table_pc' = "returned"
    /\ UNCHANGED <<excel_json, header_row_index, row_label_col_index>>
    /\ UNCHANGED <<chatVars, pipeVars, treeVars, batchVars, mdVars, ruleVars>>

NextTable == ParseTableRaises \/ ParseTableReturns

----------------------------------------------------------------------------
(* The specifications.                                                     *)

InitChat  == InitChatCall /\ PipeIdle /\ TreeIdle /\ BatchIdle /\ MdIdle /\ RuleIdle /\ TableIdle
InitPipe  == ChatIdle /\ InitPipeCall /\ TreeIdle /\ BatchIdle /\ MdIdle /\ RuleIdle /\ TableIdle
InitTree  == ChatIdle /\ PipeIdle /\ InitBuildDoctree /\ BatchIdle /\ MdIdle /\ RuleIdle /\ TableIdle
InitBatch == ChatIdle /\ PipeIdle /\ TreeIdle /\ InitBatchCall /\ MdIdle /\ RuleIdle /\ TableIdle
InitMarkdown == ChatIdle /\ PipeIdle /\ TreeIdle /\ BatchIdle /\ InitParseMarkdown /\ RuleIdle /\ TableIdle
InitRule  == ChatIdle /\ PipeIdle /\ TreeIdle /\ BatchIdle /\ MdIdle /\ InitRuleCall /\ TableIdle
InitTable == ChatIdle /\ PipeIdle /\ TreeIdle /\ BatchIdle /\ MdIdle /\ RuleIdle /\ InitParseTable
InitFlatten == ChatIdle /\ PipeIdle /\ TreeIdle /\ BatchIdle /\ InitSerializeCall /\ RuleIdle /\ TableIdle

SpecChat  == InitChat /\ [][NextChat]_vars
SpecPipe  == InitPipe /\ [][NextPipe]_vars
SpecTree  == InitTree /\ [][NextTree]_vars
SpecBatch == InitBatch /\ [][NextBatch]_vars
SpecMarkdown == InitMarkdown /\ [][NextMarkdown]_vars
SpecRule  == InitRule /\ [][NextRule]_vars
SpecTable == InitTable /\ [][NextTable]_vars
SpecFlatten == InitFlatten /\ [][NextFlatten]_vars

\* One call of chat_infer, or one of process_single_item, or one of a batch
\* entry point, with the scheduling the runtime gives: an attempt that can
\* be made is made (the service answers or fails, and the wait between two
\* attempts is at most 10 seconds), a stage that can run runs, and a thread
\* of the pool or the collector that can take a step is not held back for
\* ever.
InitTermination == InitChat \/ InitPipe \/ InitBatch
NextTermination == NextChat \/ NextPipe \/ NextBatch
SpecTermination ==
    /\ InitTermination
    /\ [][NextTermination]_vars
    /\ WF_vars(NextChat)
    /\ WF_vars(NextPipe)
    /\ WF_vars(NextBatch)

----------------------------------------------------------------------------
(* Properties of process_single_item, checked under SpecPipe.              *)

Decision == pipe_out.is_invention_point   \* Yes is keep, No is delete

\* C1: for a non-empty source text the decision returned by
\* process_single_item is fixed by the judgments of the stages as in the
\* decision table: semantic no gives delete; semantic yes and experiment no
\* gives keep; semantic yes, experiment yes and chemistry yes gives delete;
\* semantic yes, experiment yes and chemistry no gives keep.
C1_DecisionTable ==
    (pipe_pc = "done" /\ ReferenceOf(item).truthy) =>
        LET semantic   == stage1_semantic.judgment
            experiment == stage2_experiment.judgment
            chemistry  == stage3_chemistry.judgment
        IN  /\ semantic = No => Decision = No
            /\ (semantic = Yes /\ experiment = No) => Decision = Yes
            /\ (semantic = Yes /\ experiment = Yes /\ chemistry = Yes) => Decision = No
            /\ (semantic = Yes /\ experiment = Yes /\ chemistry = No) => Decision = Yes
            /\ semantic \in {Yes, No} => Decision \in {Yes, No}

\* The last row but one of the table has happened: all three stages ran, all
\* three judged yes, and the item was deleted.
C1_Witness ==
    /\ pipe_pc = "done"
    /\ ReferenceOf(item).truthy
    /\ invoked = <<"stage1", "clean", "stage2", "stage3">>
    /\ stage1_semantic.judgment = Yes
    /\ stage2_experiment.judgment = Yes
    /\ stage3_chemistry.judgment = Yes
    /\ Decision = No

----------------------------------------------------------------------------
(* Properties of build_doctree, checked under SpecTree.                    *)

HasParent(n) ==
    \E p \in DOMAIN nodes : \E i \in 1..Len(nodes[p].children) : nodes[p].children[i] = n

\* C2: in every state of the construction and in the tree returned, every
\* node but the root has a parent p with p.level < n.level <= p.level + 1,
\* the root having level 0.
C2_ParentChildLevels ==
    /\ nodes[RootId].level = 0
    /\ \A n \in DOMAIN nodes \ {RootId} :
         /\ HasParent(n)
         /\ nodes[ParentOf(n)].level < nodes[n].level
         /\ nodes[n].level <= nodes[ParentOf(n)].level + 1

\* A tree has been returned in which one section asked for a level more than
\* one below the stack top and was cut, and another made the stack pop back
\* to the root.
C2_Witness ==
    /\ tree_pc = "returned"
    /\ \E i \in 1..Len(sections) : nodes[i].level < sections[i].level
    /\ Len(nodes[RootId].children) >= 2
    /\ \E n \in DOMAIN nodes : nodes[n].level = 2

----------------------------------------------------------------------------
(* Properties of the batch entry points, checked under SpecBatch.          *)

IndicesOf(rs) == { rs[i].index : i \in 1..Len(rs) }
Occurrences(rs, idx) == Cardinality({ i \in 1..Len(rs) : rs[i].index = idx })
NoTaskRaised == \A p \in Positions : future[p].kind # "raise"

\* C3: when no task raises, the entry point returns a list with exactly one
\* record per unit, every submitted index in exactly one record; and at no
\* moment does the collector hold two records of one index.
C3_EveryUnitExactlyOnce ==
    /\ \A p \in Positions : Occurrences(results, IndexOf(entry, p)) <= 1
    /\ NoTaskRaised => batch_pc \notin {"unwinding", "failed"}
    /\ batch_pc = "returned" =>
         /\ returned.written
         /\ Len(returned.results) = N
         /\ \A p \in Positions : Occurrences(returned.results, IndexOf(entry, p)) = 1
         /\ IndicesOf(returned.results) = { IndexOf(entry, p) : p \in Positions }

\* A batch of the largest size, on two workers, has returned.
C3_Witness ==
    /\ batch_pc = "returned"
    /\ N = MaxItems
    /\ max_workers >= 2
    /\ NoTaskRaised

Ascending(rs) == \A i, j \in 1..Len(rs) : i < j => rs[i].index < rs[j].index

\* C4: for every entry point and every order of completion, the list
\* returned and written is strictly ascending by index.
C4_OutputAscending ==
    batch_pc = "returned" => Ascending(returned.results) /\ Ascending(saved.results)

\* C5: in run_point_extraction and run_excel_extraction a unit whose call of
\* chat_infer raises yields a record of its own index with the error marker,
\* a unit whose call returns yields a record of its own index with the
\* response, and the failure of a call neither fails the batch nor shortens
\* the list returned.
C5_InferenceFailureIsARecord ==
    entry \in {"point", "excel"} =>
        /\ \A p \in Positions :
             (task[p] = "finished" /\ inference[p] \in {"raise", "return"}) =>
                /\ future[p].kind = "return"
                /\ future[p].record.index = IndexOf(entry, p)
                /\ inference[p] = "raise" <=> future[p].record.result.error # ""
        /\ (\A p \in Positions : all_items[p].is_dict) =>
                batch_pc \notin {"unwinding", "failed"}
        /\ batch_pc = "returned" => Len(returned.results) = N

\* A batch has returned in which the call of one unit raised and the call of
\* another returned.
C5_Witness ==
    /\ entry \in {"point", "excel"}
    /\ batch_pc = "returned"
    /\ \E p, q \in Positions :
         /\ inference[p] = "raise"
         /\ inference[q] = "return"
         /\ \E i \in 1..Len(returned.results) :
              /\ returned.results[i].index = IndexOf(entry, p)
              /\ returned.results[i].result.error # ""

\* C6: in process_old_extracted_file an error raised while one unit is
\* processed is captured as a record of that unit, and the batch neither
\* fails nor loses a record.
C6_ItemFailureCaptured ==
    entry = "old" =>
        /\ \A p \in Positions : task[p] = "finished" => future[p].kind = "return"
        /\ batch_pc \notin {"unwinding", "failed"}

----------------------------------------------------------------------------
(* Properties of chat_infer, checked under SpecChat.                       *)

IsTransientFailure(svc) == svc.kind = "raise" /\ svc.err \in TransientErrors
IsPermanentFailure(svc) == svc.kind = "raise" /\ svc.err \notin TransientErrors
AllTransient == \A i \in 1..Len(attempt_log) : IsTransientFailure(attempt_log[i])

LastAttempt == attempt_log[Len(attempt_log)]

\* C8: when the inference call raises a transient error at its first k
\* attempts (0 <= k <= 9) and answers at attempt k+1, chat_infer has made
\* exactly k+1 attempts and returns, without raising, the text of that answer.
C8_SuccessAfterTransientFailures ==
    \A k \in 0..9 :
        ( /\ Len(attempt_log) > k
          /\ \A i \in 1..k : IsTransientFailure(attempt_log[i])
          /\ attempt_log[k + 1].kind = "completion" )
        => /\ attempt_number = k + 1
           /\ service_calls = k + 1
           /\ chat_pc = "returned"
           /\ attempt_log[k + 1].shape = "text" => chat_out = Ret(attempt_log[k + 1].text)

\* The call has returned a text at its fourth attempt after three transient
\* failures.
C8_Witness ==
    /\ chat_pc = "returned"
    /\ attempt_number = 4
    /\ \A i \in 1..3 : IsTransientFailure(attempt_log[i])
    /\ attempt_log[4].shape = "text"
    /\ chat_out.text # EmptyStr

\* C9: an attempt whose error is not transient is the last one: the attempts
\* made are exactly those up to and including it, and its error is raised.
C9_PermanentFailureNotRetried ==
    \A i \in 1..Len(attempt_log) :
        IsPermanentFailure(attempt_log[i]) =>
            /\ attempt_number = i
            /\ service_calls = i
            /\ chat_pc = "raised"
            /\ chat_out = Raise([type |-> attempt_log[i].err, at |-> i])

\* The third attempt has raised an error that is not transient, after two
\* transient ones.
C9_Witness ==
    /\ Len(attempt_log) = 3
    /\ IsTransientFailure(attempt_log[1])
    /\ IsTransientFailure(attempt_log[2])
    /\ IsPermanentFailure(attempt_log[3])
    /\ chat_pc = "raised"

\* C10: chat_infer never reports a failed invocation as a success: whenever
\* it returns, for any model identifier, the service was called and answered
\* at the last attempt with a content that could be read, and the value
\* returned is that content ("" for a content of None).
C10_ReturnCarriesTheResponse ==
    chat_pc = "returned" =>
        /\ service_calls >= 1
        /\ LastAttempt.kind = "completion"
        /\ LastAttempt.shape \in {"text", "none"}
        /\ chat_out = Ret(LastAttempt.text)

----------------------------------------------------------------------------
(* Properties of the stages of process_single_item, checked under SpecPipe.*)

\* The source text of the item is empty or missing.
EmptySource == item.is_dict /\ ~(item.has_ref /\ item.ref.truthy)

\* C11: for an item whose source text is empty or missing,
\* process_single_item returns the delete decision at once: no stage is
\* entered and no call of chat_infer is made.
C11_EmptySourceNoInference ==
    EmptySource =>
        /\ invoked = << >>
        /\ inference_calls = << >>
        /\ pipe_pc \in {"start", "done"}
        /\ pipe_pc = "done" => (pipe_out = EmptyItemRecord /\ Decision = No)

\* An item without the reference field has been answered.
C11_Witness ==
    /\ item = ItemNoRef
    /\ pipe_pc = "done"
    /\ pipe_out = EmptyItemRecord
    /\ inference_calls = << >>

StageOrder == <<"stage1", "clean", "stage2", "stage3">>

\* The stages are entered in the order of StageOrder, each at most once, and
\* none after the call has ended.
StagesInOrder ==
    /\ Len(invoked) <= Len(StageOrder)
    /\ invoked = SubSeq(StageOrder, 1, Len(invoked))
    /\ pipe_pc \in {"done", "raised"} => ~ENABLED NextPipe

\* C12: for one item the stages are invoked only in the order Stage 1,
\* Stage 1b, Stage 2, Stage 3, each at most once; Stage 1b and Stage 2 only
\* after Stage 1 judged yes, Stage 3 only after Stage 2 judged
\* experiment-step; and no stage is invoked once the decision is reached.
C12_StageOrder ==
    /\ StagesInOrder
    /\ Len(invoked) >= 2 => stage1_semantic.judgment = Yes
    /\ Len(invoked) >= 4 => stage2_experiment.judgment = Yes

\* What the code does instead: Stage 1b and Stage 2 are invoked whenever
\* Stage 1 did not judge no.
C12_StageOrderNotNo ==
    /\ StagesInOrder
    /\ Len(invoked) >= 2 =>
          (stage1_semantic.kind = "ok" /\ stage1_semantic.judgment # No)
    /\ Len(invoked) >= 4 => stage2_experiment.judgment = Yes

\* What chat_infer handed back is an error, or a text that
\* parse_json_response does not turn into an object with the key k.
CallFailed(c, k) ==
    \/ c.out.kind = "raise"
    \/ k \notin DOMAIN ParseJsonResponse(c.out.text)

Stage1Failed ==
    /\ Len(inference_calls) >= 1
    /\ CallFailed(inference_calls[1], "has_semantic_info")

\* C13: if the call of Stage 1 raises after the retries, or its response
\* cannot be parsed into an object carrying has_semantic_info, the judgment
\* is no, the decision of the item is delete, and Stage 1b, Stage 2 and
\* Stage 3 are never invoked.
C13_Stage1FailSafe ==
    Stage1Failed =>
        /\ stage1_semantic.judgment = No
        /\ pipe_pc = "done"
        /\ pipe_out = Stage1DeleteRecord(ReferenceOf(item))
        /\ Decision = No
        /\ invoked = <<"stage1">>
        /\ Len(inference_calls) = 1

\* The retries of the Stage 1 call were exhausted and the item was deleted.
C13_Witness ==
    /\ Len(inference_calls) = 1
    /\ inference_calls[1].out = Raise([type |-> "OpenAIError", at |-> MaxAttempts])
    /\ pipe_pc = "done"
    /\ Decision = No

\* The call of Stage 1b got no text from the service: the service raised, or
\* its completion carries no message content.
CleanGotNoText(c) == c.svc.kind = "raise" \/ c.svc.shape # "text"

\* C14: if Stage 1b fails, bodyText is the original item text and the
\* pipeline proceeds to Stage 2; in every case the bodyText handed to Stage 2
\* for a non-empty source text is the cleaned text produced by the inference
\* service (as given or stripped of surrounding blanks) or the original text.
C14_BodyTextCleanedOrOriginal ==
    Len(inference_calls) >= 2 =>
        LET c == inference_calls[2]
            original == ReferenceOf(item).s
        IN  /\ pipe_pc \in {"stage2", "stage3", "done"}
            /\ CleanGotNoText(c) => body_text = original
            /\ ~CleanGotNoText(c) => body_text \in {c.svc.text, Strip(c.svc.text), original}

\* The part that holds: bodyText is the original text when chat_infer raises,
\* the stripped text of the service when the completion carries one, and
\* Stage 2 follows in every case.
C14_BodyTextWhenRaisedOrText ==
    Len(inference_calls) >= 2 =>
        LET c == inference_calls[2]
            original == ReferenceOf(item).s
        IN  /\ pipe_pc \in {"stage2", "stage3", "done"}
            /\ c.out.kind = "raise" => body_text = original
            /\ ~CleanGotNoText(c) => body_text = Strip(c.svc.text)
            /\ pipe_pc # "stage2" => (Len(invoked) >= 3 /\ invoked[3] = "stage2")

Stage2Failed ==
    /\ Len(inference_calls) >= 3
    /\ CallFailed(inference_calls[3], "is_experiment")

Stage3Failed ==
    /\ Len(inference_calls) >= 4
    /\ CallFailed(inference_calls[4], "is_chemistry")

\* C15: Stages 2 and 3 fail open.  If the call of Stage 2 fails or its
\* response is unparseable, the item is treated as not-experiment and kept
\* without Stage 3 being run; if the call of Stage 3 fails or its response is
\* unparseable, the item is treated as not excluded and kept.
C15_Stages2And3FailOpen ==
    /\ Stage2Failed =>
          /\ stage2_experiment.judgment = No
          /\ pipe_pc = "done"
          /\ pipe_out.is_experiment = No
          /\ Decision = Yes
          /\ invoked = <<"stage1", "clean", "stage2">>
          /\ Len(inference_calls) = 3
    /\ Stage3Failed =>
          /\ stage3_chemistry.judgment = No
          /\ ~stage3_chemistry.should_delete
          /\ pipe_pc = "done"
          /\ Decision = Yes

\* The retries of the Stage 3 call were exhausted and the item was kept as
\* an experiment step.
C15_Witness ==
    /\ Len(inference_calls) = 4
    /\ inference_calls[4].out = Raise([type |-> "RequestException", at |-> MaxAttempts])
    /\ pipe_pc = "done"
    /\ pipe_out.is_experiment = Yes
    /\ Decision = Yes

\* The response of Stage 2 could not be parsed and the item was kept.
C15_WitnessStage2 ==
    /\ Len(inference_calls) = 3
    /\ inference_calls[3].out = Ret(<<Word("x")>>)
    /\ pipe_pc = "done"
    /\ Decision = Yes

----------------------------------------------------------------------------
(* Properties of the batch entry points, checked under SpecBatch.          *)

\* The call of chat_infer of the unit at position p raised (in
\* process_old_extracted_file: its Stage 1 call).
InferenceFailed(p) == inference[p] \in {"raise", "stage1_raise"}

\* What a record says about the processing of its unit: everything but the
\* index and the copy of the input.
Verdict(r) == [result |-> r.result, rec |-> r.rec]

\* C16: in every batch entry point the record of a unit whose inference
\* failed carries an error marker or an error reason, so that in the output
\* it differs from the record of a unit processed successfully; the record
\* of an item deleted by the Stage 1 fail-safe differs from that of an item
\* judged to have no semantic information.
C16_FailedUnitDistinguishable ==
    batch_pc = "returned" =>
        \A i, j \in 1..Len(returned.results) :
            \A p, q \in Positions :
                ( /\ returned.results[i].index = IndexOf(entry, p)
                  /\ returned.results[j].index = IndexOf(entry, q)
                  /\ all_items[p] = all_items[q]
                  /\ InferenceFailed(p)
                  /\ ~InferenceFailed(q) )
                => Verdict(returned.results[i]) # Verdict(returned.results[j])

\* The part that holds: in run_point_extraction and run_excel_extraction.
C16_PointAndExcelDistinguishable ==
    entry \in {"point", "excel"} => C16_FailedUnitDistinguishable

\* The entry point has ended, by a return or by an error.
BatchEnded == batch_pc \in {"returned", "failed"}

\* Nothing is written or returned, and the entry point does not end, while
\* the task of a submitted unit is queued or running.
NoOutputBeforeAllTerminal ==
    (BatchEnded \/ saved.written \/ returned.written) =>
        \A p \in Positions : task[p] = "finished"

\* C17: a batch function neither returns nor writes its output before every
\* submitted unit has reached a terminal state, and the failure of one unit
\* never makes it end with another unit unprocessed or the result of
\* another unit discarded.
C17_BatchWaitsAndKeepsResults ==
    /\ NoOutputBeforeAllTerminal
    /\ BatchEnded =>
          \A p \in Positions :
              future[p].kind = "return" =>
                  /\ saved.written
                  /\ \E i \in 1..Len(saved.results) : saved.results[i] = future[p].record
                  /\ \E i \in 1..Len(returned.results) : returned.results[i] = future[p].record

\* The part that holds: no output before every unit is terminal, and no
\* result discarded when the failures are failures of the inference call.
C17_WaitsForEveryUnit ==
    /\ NoOutputBeforeAllTerminal
    /\ (\A p \in Positions : future[p].kind # "raise") => C17_BatchWaitsAndKeepsResults

----------------------------------------------------------------------------
(* Properties of parse_markdown and serialize_with_titles, checked under   *)
(* SpecMarkdown.                                                           *)

\* The text holds no heading line.
NoHeading == \A i \in 1..Len(md_text) : ~md_text[i].heading

\* The sentences of the body lines of the text, in order.
BodySentences == SplitToSentences([i \in 1..Len(md_text) |-> md_text[i].text])

\* C18: for a text without a heading marker, parsing and flattening deliver
\* the whole text: every sentence of the text is the text of a segment, and
\* the segment list is not empty when the text has sentences.
C18_NoHeadingKeepsText ==
    (md_pc = "flattened" /\ NoHeading) =>
        /\ \A k \in 1..Len(BodySentences) :
              \E j \in 1..Len(segments) : segments[j].text = BodySentences[k]
        /\ BodySentences # << >> => segments # << >>

\* What the code does instead: without a heading there is no section, no
\* node under the root, and nothing is delivered.
C18_NoHeadingNothingDelivered ==
    (md_pc = "flattened" /\ NoHeading) => (parsed_tree = << >> /\ segments = << >>)

\* The fallback of a heading was asked and answered with an integer.
FallbackSucceeded(e) == e.strength = "unknow" /\ client /\ HasInteger(e.svc)

\* The fallback of a heading fell back to the default level: no client, an
\* error of the call, or a response without an integer.
FallbackDefaulted(e) == e.strength = "unknow" /\ ~(client /\ HasInteger(e.svc))

\* last_strong is written only by the classification of a heading.
LastStrongChained ==
    /\ \A i \in 1..Len(level_log) :
          level_log[i].before = IF i = 1 THEN 0 ELSE level_log[i - 1].after
    /\ last_strong = IF level_log = << >> THEN 0 ELSE level_log[Len(level_log)].after

\* C19: while the headings are classified in document order, lastStrongLevel
\* changes only when a strong rule fires (it becomes the level of the rule)
\* or when a fallback classification succeeds (it becomes the level of the
\* fallback); a weak hint and a fallback that failed and fell back to the
\* default level leave it unchanged.
C19_LastStrongFrame ==
    /\ LastStrongChained
    /\ \A i \in 1..Len(level_log) :
          LET e == level_log[i] IN
            /\ e.strength = "strong" => e.after = e.level
            /\ FallbackSucceeded(e) => e.after = e.level
            /\ e.strength = "weak" => e.after = e.before
            /\ FallbackDefaulted(e) => e.after = e.before

\* What the code does instead: a fallback that fell back to the default
\* level sets last_strong to that level, 3.
C19_LastStrongAfterEveryFallback ==
    /\ LastStrongChained
    /\ \A i \in 1..Len(level_log) :
          LET e == level_log[i] IN
            /\ e.strength = "strong" => e.after = e.level
            /\ FallbackSucceeded(e) => e.after = e.level
            /\ e.strength = "weak" => e.after = e.before
            /\ FallbackDefaulted(e) => (e.level = 3 /\ e.after = 3)

\* C20 as stated: a heading matched only by the keyword rule gets the level
\* min(lastStrongLevel + 1, 3) for every value of lastStrongLevel, the
\* initial one included.
C20_WeakLevelAsStated ==
    \A i \in 1..Len(level_log) :
        LET e == level_log[i] IN
          e.strength = "weak" => e.level = Min(e.before + 1, 3)

\* C20: a heading matched only by the keyword rule gets the level
\* min(lastStrongLevel + 1, 3) once a strong or fallback heading has been
\* seen, and the level 2 before that, lastStrongLevel having then its
\* initial value 0.
C20_WeakLevel ==
    \A i \in 1..Len(level_log) :
        LET e == level_log[i]
            seen == \E j \in 1..(i - 1) : level_log[j].strength # "weak"
        IN  e.strength = "weak" =>
              /\ seen <=> e.before # 0
              /\ seen => e.level = Min(e.before + 1, 3)
              /\ ~seen => e.level = 2
              /\ sections_meta[i].level = e.level

\* A weak heading came first and got level 2, and a weak heading after a
\* strong heading of level 2 got level 3.
C20_Witness ==
    /\ Len(level_log) = 3
    /\ level_log[1].strength = "weak" /\ level_log[1].before = 0 /\ level_log[1].level = 2
    /\ level_log[2].strength = "strong" /\ level_log[2].level = 2
    /\ level_log[3].strength = "weak" /\ level_log[3].before = 2 /\ level_log[3].level = 3

----------------------------------------------------------------------------
(* Properties of rule_based_level, checked under SpecRule.                 *)

\* The markers of a title s, each said as the pattern of its rule reads.
\* One or more Chinese numerals, then "、" or ".".
StartsCnMarker(s) ==
    \E n \in 1..(Len(s) - 1) :
        /\ \A k \in 1..n : s[k] = CN
        /\ s[n + 1] \in {DUN, DOT}

\* An opening parenthesis, one or more characters of the kind of mark, a
\* closing parenthesis of either width.
StartsParenthesised(s, mark) ==
    /\ Len(s) >= 3
    /\ s[1] = LPAR
    /\ \E n \in 2..(Len(s) - 1) :
          /\ \A k \in 2..n : s[k] = mark
          /\ s[n + 1] \in {RPAR, RPARFULL}

\* One or more digits, blanks or none, then "、", "." or ")".
StartsDigitMarker(s) ==
    \E n \in 1..(Len(s) - 1) : \E m \in n..(Len(s) - 1) :
        /\ \A k \in 1..n : s[k] = DIGIT
        /\ \A k \in (n + 1)..m : s[k] = WS
        /\ s[m + 1] \in {DUN, DOT, RPAR}

Bracketed(s) == Len(s) >= 2 /\ s[1] = LBRACKET /\ s[Len(s)] = RBRACKET

HasKeyword(s) == \E k \in 1..Len(s) : s[k] = KEYWORD

Strong(n) == [level |-> n, strength |-> "strong"]

\* C21: rule_based_level gives a title that starts with Chinese numerals and
\* "、" or "." the pair (1, strong), one that starts with parenthesised
\* Chinese numerals (2, strong), one that starts with a parenthesised number
\* or with a number and "、", "." or ")" (3, strong), and one enclosed in
\* corner brackets (3, strong), whether or not the title also holds a
\* keyword of the weak rule.
C21_MarkersAreStrong ==
    rule_pc = "returned" =>
        LET s == Strip(rule_title)
        IN  /\ StartsCnMarker(s) => rule_out = Strong(1)
            /\ StartsParenthesised(s, CN) => rule_out = Strong(2)
            /\ StartsParenthesised(s, DIGIT) \/ StartsDigitMarker(s) => rule_out = Strong(3)
            /\ Bracketed(s) => rule_out = Strong(3)

\* A title with parenthesised Chinese numerals and a keyword was classified.
C21_Witness ==
    /\ rule_pc = "returned"
    /\ StartsParenthesised(Strip(rule_title), CN)
    /\ HasKeyword(Strip(rule_title))
    /\ rule_out = Strong(2)

----------------------------------------------------------------------------
(* Properties of the Level Classifier in parse_markdown, checked under     *)
(* SpecMarkdown.                                                           *)

\* C22: every level parse_markdown assigns to a heading, from a strong rule
\* (the count of leading "#" included), from a weak hint or from the
\* fallback, lies in 1..6.
C22_LevelsInRange ==
    \A i \in 1..Len(sections_meta) : sections_meta[i].level \in 1..6

\* The same for the headings whose title does not itself begin with "#".
C22_LevelsInRangeWithoutPrefix ==
    \A i \in 1..Len(sections_meta) :
        TypeAt(Strip(TitleChars(sections_meta[i].title)), 1) # "hash"
            => sections_meta[i].level \in 1..6

\* No rule of rule_based_level, strong or weak, matches the title s.
NoRuleFires(s) ==
    /\ ~(Len(s) >= 1 /\ s[1] = HASH)
    /\ ~StartsCnMarker(s)
    /\ ~StartsParenthesised(s, CN)
    /\ ~StartsParenthesised(s, DIGIT)
    /\ ~StartsDigitMarker(s)
    /\ ~Bracketed(s)
    /\ ~HasKeyword(s)

\* The positions of the integers in the text of a response.
IntegersIn(text) == { i \in 1..Len(text) : text[i].t = "num" }

\* The level the fallback is stated to give: 3 without a client, when the
\* call failed and when the response has no integer, else the first integer
\* of the response, 1 if it is below 1 and 6 if it is above 6.
StatedFallbackLevel(has_client, svc) ==
    IF ~has_client \/ svc.kind # "completion" \/ svc.shape # "text" THEN 3
    ELSE IF IntegersIn(svc.text) = {} THEN 3
    ELSE LET first == CHOOSE i \in IntegersIn(svc.text) :
                          \A j \in IntegersIn(svc.text) : i <= j
             n == IntOf(svc.text[first].v)
         IN  IF n < 1 THEN 1 ELSE IF n > 6 THEN 6 ELSE n

\* C23: llm_predict_level is invoked for a heading exactly when no rule
\* fires for its title, the service is called for no other heading, and the
\* level of such a heading is the first integer of the response cut to 1..6,
\* or 3 when the call failed, the response has no integer or there is no
\* client.
C23_FallbackWhenNoRule ==
    \A i \in 1..Len(level_log) :
        LET e == level_log[i]
        IN  /\ e.fallback <=> NoRuleFires(Strip(TitleChars(e.title)))
            /\ e.svc # SvcNotCalled => e.fallback /\ client
            /\ e.fallback => e.level = StatedFallbackLevel(client, e.svc)

\* A fallback answered by a text with two integers, the first above 6.
C23_Witness ==
    \E i \in 1..Len(level_log) :
        /\ level_log[i].fallback
        /\ level_log[i].svc = SvcText(<<Num("7"), WS, Num("1")>>)
        /\ level_log[i].level = 6

----------------------------------------------------------------------------
(* Properties of parse_table, checked under SpecTable.                     *)

\* The data of the table parse_table works on.
ParsedData == TableItems(excel_json)[1].data

\* The cell in row i, column j of the data, both counted from 0.
CellAt(i, j) == ParsedData[i + 1][j + 1]

CellPositions ==
    { <<i, j>> \in (0..MaxRows) \X LabelColumns :
        i < Len(ParsedData) /\ j < Len(ParsedData[i + 1]) }

\* An empty cell: None, the empty string, or blanks only.
IsEmptyCell(cell) == cell.none \/ Strip(cell.text) = EmptyStr

NoNoneCell == \A p \in CellPositions : ~CellAt(p[1], p[2]).none

\* The emitted triplets that carry the indices of the cell (i, j).
TripletsAt(i, j) ==
    { k \in 1..Len(table_out.triplets) :
        /\ table_out.triplets[k].row_index = i
        /\ table_out.triplets[k].col_index = j }

\* The triplet stated for the cell (i, j), the column labels being those of
\* the row or list labels.
StatedTriplet(i, j, labels) ==
    LET c == row_label_col_index
    IN  [row_label |-> IF c < Len(ParsedData[i + 1])
                       THEN Strip(CellAt(i, c).text)
                       ELSE <<Word("Row"), Tok("index", "", ToString(i))>>,
         col_label |-> IF j < Len(labels)
                       THEN Strip(labels[j + 1].text)
                       ELSE <<Word("Col"), Tok("index", "", ToString(j))>>,
         value     |-> Strip(CellAt(i, j).text),
         row_index |-> i,
         col_index |-> j]

\* Exactly the cells of the rows in emitting, outside the label column and
\* not empty, have a triplet, one each and as stated; no other triplet is
\* emitted.
TripletsAsStated(emitting, labels) ==
    /\ \A k \in 1..Len(table_out.triplets) :
          <<table_out.triplets[k].row_index, table_out.triplets[k].col_index>>
              \in CellPositions
    /\ \A p \in CellPositions :
          IF /\ p[1] \in emitting
             /\ p[2] # row_label_col_index
             /\ ~IsEmptyCell(CellAt(p[1], p[2]))
          THEN /\ Cardinality(TripletsAt(p[1], p[2])) = 1
               /\ \A k \in TripletsAt(p[1], p[2]) :
                     table_out.triplets[k] = StatedTriplet(p[1], p[2], labels)
          ELSE TripletsAt(p[1], p[2]) = {}

\* C24: with header row 0 and row-label column c, parse_table emits exactly
\* one triplet for each cell (i, j) with i # 0, j # c and a value that is not
\* empty, and none for any other cell; the triplet carries the stripped
\* label of row i (or Row{i}), the stripped entry j of the header row (or
\* Col{j}), the stripped value and the indices i and j.
C24_TripletsOfHeaderRowZero ==
    table_pc = "returned" /\ header_row_index = 0 =>
        TripletsAsStated(1..(Len(ParsedData) - 1),
                         IF ParsedData = << >> THEN TableItems(excel_json)[1].headers
                         ELSE ParsedData[1])

\* The same for the tables without a None cell.
C24_TripletsOfTextCells ==
    table_pc = "returned" /\ header_row_index = 0 /\ NoNoneCell =>
        TripletsAsStated(1..(Len(ParsedData) - 1),
                         IF ParsedData = << >> THEN TableItems(excel_json)[1].headers
                         ELSE ParsedData[1])

\* A table without a None cell for which two triplets were emitted, one of
\* them with a synthetic column label.
C24_TextCellsWitness ==
    /\ table_pc = "returned"
    /\ header_row_index = 0
    /\ NoNoneCell
    /\ Len(table_out.triplets) = 2
    /\ \E k \in 1..2 : table_out.triplets[k].col_label[1] = Word("Col")

\* The rows stated to emit under header_row_index h: all but row h when h
\* is a row of the data, all when it is not.
EmittingRows(h) ==
    IF h < Len(ParsedData) THEN (0..(Len(ParsedData) - 1)) \ {h}
    ELSE 0..(Len(ParsedData) - 1)

\* The column labels under header_row_index h: row h of the data, or the
\* declared headers when h is not a row of the data.
HeaderLabels(h) ==
    IF h < Len(ParsedData) THEN ParsedData[h + 1] ELSE TableItems(excel_json)[1].headers

\* C25: for any header_row_index h, the row data[h] emits no triplet and
\* every other row emits the triplets of its cells that are not empty and
\* not in the label column; when h is not a row of the data, no row is
\* skipped.
C25_HeaderRowSkipped ==
    table_pc = "returned" =>
        TripletsAsStated(EmittingRows(header_row_index), HeaderLabels(header_row_index))

\* The same for the tables without a None cell.
C25_HeaderRowSkippedTextCells ==
    table_pc = "returned" /\ NoNoneCell =>
        TripletsAsStated(EmittingRows(header_row_index), HeaderLabels(header_row_index))

\* What holds instead: whatever h is, row 0 is the row that emits nothing.
C25_RowZeroSkipped ==
    table_pc = "returned" /\ NoNoneCell =>
        TripletsAsStated(1..(Len(ParsedData) - 1), HeaderLabels(header_row_index))

\* C26: parse_table emits no triplet for an empty cell (the empty string,
\* blanks only, or None), whatever the rest of its row holds, and no emitted
\* triplet has an empty value.
C26_NoTripletForEmptyCell ==
    table_pc = "returned" =>
        \A k \in 1..Len(table_out.triplets) :
            LET t == table_out.triplets[k]
            IN  /\ <<t.row_index, t.col_index>> \in CellPositions
                /\ ~IsEmptyCell(CellAt(t.row_index, t.col_index))
                /\ t.value # EmptyStr

\* What holds instead: no triplet for a cell that is an empty string or
\* blanks only, and no triplet with an empty value.
C26_NoTripletForBlankText ==
    table_pc = "returned" =>
        \A k \in 1..Len(table_out.triplets) :
            LET t == table_out.triplets[k]
            IN  /\ <<t.row_index, t.col_index>> \in CellPositions
                /\ CellAt(t.row_index, t.col_index).none
                      \/ Strip(CellAt(t.row_index, t.col_index).text) # EmptyStr
                /\ t.value # EmptyStr

----------------------------------------------------------------------------
(* Properties of the builder and the flattener over two runs, checked      *)
(* under SpecMarkdown.                                                     *)

----------------------------------------------------------------------------
(* The gate after Stage 1, checked under SpecPipe.                         *)

\* Stage 1 has answered and the has_semantic_info parsed from the response
\* of its call is not yes: it is no, another value, or there is none.
Stage1NotYes ==
    /\ stage1_semantic.kind = "ok"
    /\ Len(inference_calls) >= 1
    /\ LET c == inference_calls[1]
       IN  \/ c.out.kind = "raise"
           \/ "has_semantic_info" \notin DOMAIN ParseJsonResponse(c.out.text)
           \/ ParseJsonResponse(c.out.text)["has_semantic_info"] # Yes

\* C28: whenever the has_semantic_info parsed by Stage 1 is anything other
\* than yes (no, missing, or a value that is neither), the decision of the
\* item is delete and no later stage runs; Stage 1b is entered only after a
\* judgment that is exactly yes.
C28_Stage1GateExactlyYes ==
    Stage1NotYes =>
        /\ invoked = <<"stage1">>
        /\ pipe_pc = "done"
        /\ Decision = No

\* What holds instead: the item is deleted at Stage 1 exactly when the
\* judgment is no or missing; any other value lets it through.
C28_Stage1GateNotNo ==
    stage1_semantic.kind = "ok" =>
        IF stage1_semantic.judgment = No
        THEN invoked = <<"stage1">> /\ pipe_pc = "done" /\ Decision = No
        ELSE pipe_pc # "done" \/ Len(invoked) >= 3

----------------------------------------------------------------------------
(* The result list under the interleavings of workers and collector,       *)
(* checked under SpecBatch.                                                *)

\* The places of the result list that hold the record of position p.
RecordsOf(p) == { k \in 1..Len(results) : results[k].index = IndexOf(entry, p) }

\* The positions whose future the collector has taken a record from.
Collected == { p \in yielded : future[p].kind = "return" }

\* C29: the result list is written by the collector only, which appends the
\* record of a future once, after the future has completed; the workers
\* write neither the list nor what the collector keeps; so in every
\* interleaving the list holds one record for each future collected, the
\* record of that future, and no other.
C29_OnlyCollectorWritesResults ==
    /\ [](/\ \A p \in yielded : task[p] = "finished"
          /\ Len(results) = Cardinality(Collected)
          /\ \A p \in 1..Len(all_items) :
                IF p \in Collected
                THEN /\ Cardinality(RecordsOf(p)) = 1
                     /\ \A k \in RecordsOf(p) : results[k] = future[p].record
                ELSE RecordsOf(p) = {})
    /\ [][(task' # task \/ future' # future)
            => UNCHANGED <<results, yielded, saved, returned>>]_vars
    /\ [][results' # results => (batch_pc = "collect" /\ task' = task /\ future' = future)]_vars

\* The collector has taken the record of a later unit while an earlier one
\* is still running in a worker.
C29_Witness ==
    \E p, q \in 1..Len(all_items) :
        /\ p < q
        /\ task[p] = "running"
        /\ q \in Collected
        /\ Len(results) >= 1

----------------------------------------------------------------------------
(* The shape of the tree while build_doctree runs, checked under SpecTree. *)

RECURSIVE PreOrder(_, _)
RECURSIVE PreOrderAll(_, _)
\* The ids of the nodes below and including id, parent before children and
\* children from first to last.
PreOrder(ns, id) == <<id>> \o PreOrderAll(ns, ns[id].children)

PreOrderAll(ns, ids) ==
    IF ids = << >> THEN << >>
    ELSE PreOrder(ns, Head(ids)) \o PreOrderAll(ns, Tail(ids))

\* The nodes of ns that list n among their children.
ParentsIn(ns, n) ==
    { p \in DOMAIN ns : \E i \in 1..Len(ns[p].children) : ns[p].children[i] = n }

\* C30: build_doctree makes exactly one node for each section consumed, with
\* its title and content; the pre-order traversal of the tree visits the
\* nodes in the order of their sections; each node has one parent, which
\* never changes once the node is attached; and a step only appends the new
\* node at the end of the child list of a node on the ancestor stack.
C30_OneNodePerSectionInOrder ==
    /\ [](/\ DOMAIN nodes = 0..(next_section - 1)
          /\ tree_pc = "returned" => Cardinality(DOMAIN nodes) = Len(sections) + 1
          /\ \A n \in DOMAIN nodes \ {RootId} :
                /\ nodes[n].title = sections[n].title
                /\ nodes[n].content = sections[n].content
                /\ Cardinality(ParentsIn(nodes, n)) = 1
          /\ PreOrder(nodes, RootId) = [k \in 1..next_section |-> k - 1])
    /\ [][/\ \A n \in DOMAIN nodes \ {RootId} : ParentsIn(nodes', n) = ParentsIn(nodes, n)
          /\ \A p \in DOMAIN nodes :
                \/ nodes'[p].children = nodes[p].children
                \/ /\ nodes'[p].children = Append(nodes[p].children, next_section)
                   /\ \E k \in 1..Len(stack) : stack[k] = p]_vars

\* A tree of three sections has been returned: two children of the root,
\* the first of them with a child of its own.
C30_Witness ==
    /\ tree_pc = "returned"
    /\ Len(sections) = 3
    /\ nodes[RootId].children = <<1, 3>>
    /\ nodes[1].children = <<2>>

----------------------------------------------------------------------------
(* The records of serialize_with_titles against the forest it was given,   *)
(* checked under SpecFlatten.  A node is named by its address: the indices *)
(* of the children to follow from the list down to the node.               *)

RECURSIVE AddressesOf(_)
AddressesOf(forest) ==
    UNION { {<<k>>} \cup { <<k>> \o a : a \in AddressesOf(forest[k].children) }
            : k \in 1..Len(forest) }

RECURSIVE NodeAt(_, _)
NodeAt(forest, a) ==
    IF Len(a) = 1 THEN forest[a[1]]
    ELSE NodeAt(forest[a[1]].children, Tail(a))

\* Depth-first pre-order on addresses: an ancestor before its descendants,
\* the subtree of an earlier sibling before the subtree of a later one.
Before(a, b) ==
    \/ Len(a) < Len(b) /\ SubSeq(b, 1, Len(a)) = a
    \/ \E k \in 1..Len(a) :
          /\ k <= Len(b)
          /\ a[k] < b[k]
          /\ SubSeq(a, 1, k - 1) = SubSeq(b, 1, k - 1)

\* The titles from the top-level ancestor down to the node itself.
TitlesAlong(forest, a) == [k \in 1..Len(a) |-> NodeAt(forest, SubSeq(a, 1, k)).title]

\* The non-blank sentences of the forest: the address of the node and the
\* place of the sentence in its content.
Sources(forest) ==
    { s \in UNION { {a} \X (1..Len(NodeAt(forest, a).content)) : a \in AddressesOf(forest) } :
        Strip(NodeAt(forest, s[1]).content[s[2]]) # EmptyStr }

SourceBefore(s, t) == Before(s[1], t[1]) \/ (s[1] = t[1] /\ s[2] < t[2])

\* The place of a sentence in the pre-order of the sentences.
Rank(forest, s) == Cardinality({ t \in Sources(forest) : SourceBefore(t, s) }) + 1

\* C31: the title path of every record is the sequence of the titles from
\* the top-level ancestor down to and including the node that owns the
\* sentence, joined by " > ", whatever the titles are.
C31_TitlePathOfEveryNode ==
    md_pc = "flattened" =>
        \A s \in Sources(parsed_tree) :
            Rank(parsed_tree, s) <= Len(segments) =>
                segments[Rank(parsed_tree, s)].title_path
                    = Join(" > ", TitlesAlong(parsed_tree, s[1]))

\* What the code does: a node whose title is ROOT adds nothing to the path,
\* wherever it stands.
C31_RootTitlesDropped ==
    md_pc = "flattened" =>
        \A s \in Sources(parsed_tree) :
            LET NotRoot(t) == t # "ROOT"
            IN  Rank(parsed_tree, s) <= Len(segments) =>
                    segments[Rank(parsed_tree, s)].title_path
                        = Join(" > ", SelectSeq(TitlesAlong(parsed_tree, s[1]), NotRoot))

\* Without a node titled ROOT the path is the one stated.
C31_TitlePathWithoutRootTitle ==
    (md_pc = "flattened"
        /\ \A a \in AddressesOf(parsed_tree) : NodeAt(parsed_tree, a).title # "ROOT") =>
        \A s \in Sources(parsed_tree) :
            Rank(parsed_tree, s) <= Len(segments) =>
                segments[Rank(parsed_tree, s)].title_path
                    = Join(" > ", TitlesAlong(parsed_tree, s[1]))

\* A sentence of a node two levels down has been flattened.
C31_DeepSentenceFlattened ==
    /\ md_pc = "flattened"
    /\ \E s \in Sources(parsed_tree) : Len(s[1]) = 3

\* C32: the flattener emits exactly one record for each non-blank sentence
\* of each node and none else, its text being the sentence stripped, in
\* depth-first pre-order: the sentences of a node in the order of its
\* content and before every record of its descendants, the subtree of an
\* earlier sibling before the subtree of a later one.
C32_OneSegmentPerSentenceInPreOrder ==
    md_pc = "flattened" =>
        /\ Len(segments) = Cardinality(Sources(parsed_tree))
        /\ \A s \in Sources(parsed_tree) :
              /\ Rank(parsed_tree, s) \in 1..Len(segments)
              /\ segments[Rank(parsed_tree, s)].text
                    = Strip(NodeAt(parsed_tree, s[1]).content[s[2]])

\* A forest has been flattened in which a node with a blank sentence among
\* its sentences has a child with a sentence and is followed by a sibling
\* with a sentence.
C32_Witness ==
    /\ md_pc = "flattened"
    /\ Len(parsed_tree) = 2
    /\ Len(parsed_tree[1].content) = 3
    /\ Len(parsed_tree[1].children) = 1
    /\ parsed_tree[1].children[1].content # << >>
    /\ parsed_tree[2].content # << >>
    /\ Len(segments) >= 4

----------------------------------------------------------------------------
(* The summary of process_old_extracted_file, checked under SpecBatch.     *)

\* C33: in the summary that process_old_extracted_file returns, the kept
\* and the deleted items add up to the total, the total is the number of
\* input items, there are no more chemistry items than experiment items,
\* and every record marked as chemistry is marked as an experiment step
\* and is not an invention point.
C33_SummaryCountsConsistent ==
    (entry = "old" /\ batch_pc = "returned") =>
        /\ returned.summary.invention_point + returned.summary.deleted
              = returned.summary.total
        /\ returned.summary.total = Len(all_items)
        /\ returned.summary.chemistry <= returned.summary.experiment
        /\ \A i \in 1..Len(returned.results) :
              returned.results[i].rec.is_chemistry = Yes =>
                  /\ returned.results[i].rec.is_experiment = Yes
                  /\ returned.results[i].rec.is_invention_point = No

\* A batch of three items has returned with an item kept, an item deleted
\* as chemistry and an experiment step that is not chemistry.
C33_Witness ==
    /\ entry = "old"
    /\ batch_pc = "returned"
    /\ returned.summary.total = 3
    /\ returned.summary.invention_point = 2
    /\ returned.summary.deleted = 1
    /\ returned.summary.experiment = 2
    /\ returned.summary.chemistry = 1

\* The same relation on the record of one call of process_single_item,
\* over every response of the service to the stage prompts (SpecPipe).
C33_ChemistryRecordDeleted ==
    (pipe_pc = "done" /\ pipe_out.is_chemistry = Yes) =>
        (pipe_out.is_experiment = Yes /\ pipe_out.is_invention_point = No)

----------------------------------------------------------------------------
(* Termination and the budget of service calls, checked under              *)
(* SpecTermination.                                                        *)

\* A call of chat_infer makes at most MaxAttempts attempts, and a call of
\* process_single_item enters at most 4 stages, each with at most one call
\* of chat_infer: at most 40 calls of the service for an item.
WithinBudget ==
    /\ attempt_number <= MaxAttempts
    /\ service_calls <= attempt_number
    /\ Len(invoked) <= 4
    /\ Len(inference_calls) <= Len(invoked)
    /\ Len(inference_calls) * MaxAttempts <= 40

\* The call has ended, one way or the other.
Ended ==
    /\ chat_pc \in {"idle", "returned", "raised"}
    /\ pipe_pc \in {"idle", "done", "raised"}
    /\ batch_pc \in {"idle", "returned", "failed"}

\* The call has ended as stated: the item with a decision, the batch by
\* returning.
EndedWithDecision ==
    /\ chat_pc \in {"idle", "returned", "raised"}
    /\ pipe_pc = "idle" \/ (pipe_pc = "done" /\ Decision \in {Yes, No})
    /\ batch_pc \in {"idle", "returned"}

\* C34: the pipeline of every item ends with a decision after at most 4
\* stage invocations of at most 10 attempts each, and every batch returns:
\* within the budget, a call that can take no further step has ended with
\* a decision for the item and with the return of the batch.
C34_EveryItemDecidedEveryBatchReturns ==
    /\ WithinBudget
    /\ EndedWithDecision \/ ENABLED NextTermination

\* What holds: within the budget every call ends, the item with a decision
\* or with an error that leaves process_single_item, the batch by returning
\* or with the error of one of its tasks.
C34_BoundedAndEnding ==
    /\ [](WithinBudget)
    /\ [](Ended \/ ENABLED NextTermination)
    /\ <>Ended
    /\ [](pipe_pc = "raised" =>
             (~item.is_dict \/ (ReferenceOf(item).truthy /\ ReferenceOf(item).ty # "str")))
    /\ [](batch_pc = "failed" => \E p \in Positions : future[p].kind = "raise")

----------------------------------------------------------------------------
(* The body text through parse_markdown and the flattener, checked under   *)
(* SpecMarkdown.                                                           *)

\* How many entries of a sequence equal x.
CountOf(seq, x) == Cardinality({ i \in 1..Len(seq) : seq[i] = x })

SegmentTexts == [j \in 1..Len(segments) |-> segments[j].text]

\* The lines of the text before its first heading line: all of them when
\* there is no heading line.
BeforeFirstHeading ==
    { i \in 1..Len(md_text) : \A j \in 1..i : ~md_text[j].heading }

\* The sentences of the body lines behind the first heading line, in order.
SentencesAfterFirstHeading ==
    LET Behind(l) == l.behind
        marked == [i \in 1..Len(md_text) |->
                      [behind |-> i \notin BeforeFirstHeading, text |-> md_text[i].text]]
        kept   == SelectSeq(marked, Behind)
    IN  SplitToSentences([i \in 1..Len(kept) |-> kept[i].text])

\* C35: parse_markdown followed by the flattener loses no body text: every
\* non-blank sentence of a line that is not a heading line, the lines before
\* the first heading line included, is the text of exactly one record, so a
\* sentence is the text of as many records as it occurs in the body lines.
C35_NoBodyTextLost ==
    md_pc = "flattened" =>
        \A k \in 1..Len(BodySentences) :
            CountOf(SegmentTexts, BodySentences[k]) = CountOf(BodySentences, BodySentences[k])

\* What the code does: the records are the sentences of the body lines
\* behind the first heading line, in their order; the lines before it are in
\* no section and reach no record.
C35_TextAfterFirstHeadingKept ==
    md_pc = "flattened" => SegmentTexts = SentencesAfterFirstHeading

\* A text that starts with a body line holding sentences, followed by a
\* heading and its body, has been flattened.
C35_TextBeforeFirstHeading ==
    /\ md_pc = "flattened"
    /\ Len(md_text) = 3
    /\ ~md_text[1].heading /\ SplitToSentences(<<md_text[1].text>>) # << >>
    /\ md_text[2].heading
    /\ segments # << >>

----------------------------------------------------------------------------
(* The table parse_table works on, checked under SpecTable.                *)

\* C36: parse_table takes its triplets from the first table item of the
\* content list only: every triplet carries the indices of a cell of that
\* table and the text of that cell, and the result is the one for the
\* content list cut down to its first table item; and when the list holds
\* no table item the call ends with an error and returns no list.
C36_FirstTableOnlyErrorWithoutTable ==
    /\ table_pc = "returned" =>
          /\ TableItems(excel_json) # << >>
          /\ table_out.kind = "return"
          /\ \A k \in 1..Len(table_out.triplets) :
                LET t == table_out.triplets[k]
                IN  /\ <<t.row_index, t.col_index>> \in CellPositions
                    /\ t.value = Strip(StrOf(CellAt(t.row_index, t.col_index)))
          /\ table_out = ParseTable(<<TableItems(excel_json)[1]>>,
                                    header_row_index, row_label_col_index)
    /\ table_pc = "raised" =>
          /\ TableItems(excel_json) = << >>
          /\ table_out = TableRaised("ValueError")

\* A content list with two table items has been parsed and triplets of the
\* first table have been returned.
C36_Witness ==
    /\ table_pc = "returned"
    /\ Len(TableItems(excel_json)) = 2
    /\ TableItems(excel_json)[2] = OtherTable
    /\ \E k \in 1..Len(table_out.triplets) :
          table_out.triplets[k].value = <<Word("b")>>

\* A content list without a table item has been handed in and the call has
\* ended with the error.
C36_NoTableRaised ==
    /\ table_pc = "raised"
    /\ excel_json = <<TextItem>>

====
